---- MODULE Spec2Model ----
(***************************************************************************)
(* A model of tggamebot's concurrency layer (src/src/concurrency.py), its  *)
(* SicBo round engine (src/src/sicbo_manager.py) and payout calculator     *)
(* (src/src/sicbo_calculator.py), the handlers of src/src/bot.py that      *)
(* reach the engine, the ledger calls they make (src/src/repositories.py)  *)
(* and the ledger's transaction (src/src/database.py).                     *)
(*                                                                         *)
(* Scheduling: asyncio tasks on one event loop.  Code between two awaits   *)
(* that really suspend runs uninterrupted, so it is ONE action here; every *)
(* ledger call (aiosqlite I/O), every Telegram call and a contended        *)
(* lock.acquire() is a suspension point and ends an action.  An await of   *)
(* a coroutine that does not suspend (an uncontended asyncio.Lock, a       *)
(* coroutine with no I/O) does not end the action.                         *)
(***************************************************************************)
EXTENDS Integers, Sequences, FiniteSets, TLC

(***************************************************************************)
(* Bounds of the model.                                                    *)
(***************************************************************************)
MaxOps == 4        \* operations (handler invocations) started in one run
MaxTicks == 2      \* clock advances in one run
MaxLocks == 3      \* asyncio.Lock objects created in one run
MaxRounds == 2     \* SicBoGame objects created per room in one run
MaxBets == 2       \* bets that get past place_bet's checks, or bet requests, in one run
MaxBatches == 2    \* DatabaseManager.transaction calls in one run

Actors == {1, 2}
Tasks == {1, 2, 3}
Rooms == {1}

(***************************************************************************)
(* Program constants.                                                      *)
(***************************************************************************)
GAME_SESSION_TIMEOUT == 60
BETTING_DURATION == 60
FIXED_BET_AMOUNT == 100
DEFAULT_BALANCE == 1000

\* The clock advances in steps of one timeout, so that an elapsed time
\* below (0 s), equal to (60 s) and above (120 s) the 60 s limits all occur.
TickStep == GAME_SESSION_TIMEOUT

VARIABLES
    locks,            \* UserLockManager._locks: actor -> lock object id, or NoLock
    lockObjs,         \* the asyncio.Lock objects created so far: id -> [locked, waiters]
    active_sessions,  \* GameSessionManager._active_sessions: actor -> NoSession or [game, start]
    now,              \* time.time()
    balance,          \* users.balance, per actor
    transactions,     \* the transactions table, per actor, in insertion order
    active_games,     \* SicBoManager.active_games: room -> NoGame or the SicBoGame
    created,          \* SicBoGame objects created so far, per room
    pc,               \* per task: where its coroutine is suspended
    loc,              \* per task: the coroutine's local variables
    ev,               \* what the last step did and returned (observation only)
    harness,          \* inputs and counters of the lock-protected balance operation
    ops               \* operations started so far

vars == <<locks, lockObjs, active_sessions, now, balance, transactions,
          active_games, created, pc, loc, ev, harness, ops>>

NoLock == 0
NoSession == [game |-> "none", start |-> 0]
NoGame == [id |-> 0, phase |-> "absent", bets |-> <<>>, dice_results |-> <<>>,
           betting_end_time |-> 0]

\* a transaction() call: its operations, how many have run, the one forced
\* to fail (0: none), and what its connection sees inside the transaction
NoBatch == [operations |-> <<>>, done |-> 0, fail |-> 0,
            balance |-> <<>>, transactions |-> <<>>]

NoLoc == [kind |-> "none", user |-> 0, room |-> 0, lock |-> 0, after |-> "idle",
          game |-> "none", bet_type |-> "none", numbers |-> <<>>, amount |-> 0,
          gid |-> 0, debited |-> 0, results |-> <<>>, player_results |-> <<>>,
          via |-> "none", batch |-> NoBatch]

NoEv == [op |-> "init", task |-> 0, user |-> 0, room |-> 0, ok |-> TRUE,
         msg |-> "", arg |-> "", n |-> 0, trace |-> <<>>, net |-> <<>>]

Event(op, t, u, r, ok, msg) ==
    [op |-> op, task |-> t, user |-> u, room |-> r, ok |-> ok, msg |-> msg,
     arg |-> "", n |-> 0, trace |-> <<>>, net |-> <<>>]

(***************************************************************************)
(* UserLockManager (concurrency.py 17-94) over asyncio.Lock.               *)
(*                                                                         *)
(* _global_lock is held only across code with no await (get_lock's and     *)
(* release's bodies), so it is free whenever a task reaches it and         *)
(* `async with self._global_lock` never suspends: it is not a variable.    *)
(***************************************************************************)

\* self._locks is keyed by the user id.
LockKey_Global(u) == CHOOSE a \in Actors : \A b \in Actors : a <= b
LockKey(u) == u

\* get_lock: `if user_id not in self._locks`.
LockMissing_Always(u) == TRUE
LockMissing(u) == locks[LockKey(u)] = NoLock

\* get_lock: the lock object returned for u (a fresh one when missing).
GetLock(u) == IF LockMissing(u) THEN Len(lockObjs) + 1 ELSE locks[LockKey(u)]

LocksAfterGet(u) ==
    IF LockMissing(u) THEN [locks EXCEPT ![LockKey(u)] = Len(lockObjs) + 1] ELSE locks

ObjsAfterGet(u) ==
    IF LockMissing(u) THEN Append(lockObjs, [locked |-> FALSE, waiters |-> <<>>])
    ELSE lockObjs

\* asyncio.Lock.acquire: the caller waits unless the lock is free and no
\* waiter is queued (no future is ever cancelled here).
MustWait_Never(obj) == FALSE
MustWait(obj) == obj.locked \/ obj.waiters # <<>>

\* asyncio.Lock._wake_up_first: completes the first waiter's future if it is
\* not done yet.
WakeUpFirst(ws) ==
    IF ws = <<>> THEN ws
    ELSE IF ws[1].done THEN ws ELSE [ws EXCEPT ![1].done = TRUE]

\* UserLockManager.release: releases the lock registered for u if it is locked.
ReleasedObjs(u) ==
    IF locks[LockKey(u)] # NoLock /\ lockObjs[locks[LockKey(u)]].locked
    THEN [lockObjs EXCEPT ![locks[LockKey(u)]] =
              [locked |-> FALSE, waiters |-> WakeUpFirst(@.waiters)]]
    ELSE lockObjs

\* UserLockManager.is_locked
is_locked(u) == locks[LockKey(u)] # NoLock /\ lockObjs[locks[LockKey(u)]].locked

\* UserLockManager.acquire by task t for actor u; the coroutine goes on at
\* `next` once it holds the lock.  The new pc of t is "lock_wait" when it
\* has to queue.  Sets locks', lockObjs'; yields the new pc and lock id.
AcquirePc(u, next) == IF MustWait(ObjsAfterGet(u)[GetLock(u)]) THEN "lock_wait" ELSE next

Acquire(t, u) ==
    /\ LockMissing(u) => Len(lockObjs) < MaxLocks
    /\ locks' = LocksAfterGet(u)
    /\ lockObjs' =
         IF MustWait(ObjsAfterGet(u)[GetLock(u)])
         THEN [ObjsAfterGet(u) EXCEPT ![GetLock(u)].waiters =
                   Append(@, [task |-> t, done |-> FALSE])]
         ELSE [ObjsAfterGet(u) EXCEPT ![GetLock(u)].locked = TRUE]

\* The waiter's future is done: asyncio.Lock.acquire resumes, leaves the
\* queue and takes the lock.
FutureDone(t) ==
    \E i \in 1..Len(lockObjs[loc[t].lock].waiters) :
        /\ lockObjs[loc[t].lock].waiters[i].task = t
        /\ lockObjs[loc[t].lock].waiters[i].done

LockResume(t) ==
    /\ pc[t] = "lock_wait"
    /\ FutureDone(t)
    /\ lockObjs' = [lockObjs EXCEPT ![loc[t].lock] =
           [locked |-> TRUE,
            waiters |-> SelectSeq(@.waiters, LAMBDA w : w.task # t)]]
    /\ pc' = [pc EXCEPT ![t] = loc[t].after]
    /\ ev' = Event("lock_resume", t, loc[t].user, 0, TRUE, "")
    /\ UNCHANGED <<locks, active_sessions, now, balance, transactions,
                   active_games, created, loc, harness, ops>>

(***************************************************************************)
(* The lock-protected balance operation (tests/test_concurrency_properties *)
(* .py 217-232): acquire, read the balance, debit if it suffices, release. *)
(***************************************************************************)
LockInitBalances == {100, 250}
LockBetAmounts == {100, 150}

Sufficient(bal, amount) == bal >= amount

OpStart(t, u) ==
    /\ pc[t] = "idle"
    /\ ops < MaxOps
    /\ ops' = ops + 1
    /\ Acquire(t, u)
    /\ pc' = [pc EXCEPT ![t] = AcquirePc(u, "op_read")]
    /\ loc' = [loc EXCEPT ![t] = [NoLoc EXCEPT !.kind = "lockop", !.user = u,
                                   !.lock = GetLock(u), !.after = "op_read"]]
    /\ ev' = Event("acquire", t, u, 0, TRUE, "")
    /\ UNCHANGED <<active_sessions, now, balance, transactions, active_games, created, harness>>

\* get_balance returns; the balance is checked.  When it does not suffice
\* the operation counts a failure and releases in the same run.
OpRead(t) ==
    /\ pc[t] = "op_read"
    /\ IF Sufficient(balance[loc[t].user], harness.bet_amount)
       THEN /\ pc' = [pc EXCEPT ![t] = "op_debit"]
            /\ ev' = Event("op_read", t, loc[t].user, 0, TRUE, "")
            /\ UNCHANGED <<lockObjs, harness, loc>>
       ELSE /\ pc' = [pc EXCEPT ![t] = "idle"]
            /\ harness' = [harness EXCEPT !.failed[loc[t].user] = @ + 1]
            /\ lockObjs' = ReleasedObjs(loc[t].user)
            /\ loc' = [loc EXCEPT ![t] = NoLoc]
            /\ ev' = Event("op_end", t, loc[t].user, 0, FALSE, "")
    /\ UNCHANGED <<locks, active_sessions, now, balance, transactions, active_games, created, ops>>

\* update_balance(user_id, -bet_amount) executes in the database.
OpDebit(t) ==
    /\ pc[t] = "op_debit"
    /\ balance' = [balance EXCEPT ![loc[t].user] = @ - harness.bet_amount]
    /\ pc' = [pc EXCEPT ![t] = "op_done"]
    /\ ev' = Event("op_debit", t, loc[t].user, 0, TRUE, "")
    /\ UNCHANGED <<locks, lockObjs, active_sessions, now, transactions,
                   active_games, created, loc, harness, ops>>

\* The operation resumes after the update, counts a success and releases.
OpFinish(t) ==
    /\ pc[t] = "op_done"
    /\ harness' = [harness EXCEPT !.successful[loc[t].user] = @ + 1]
    /\ lockObjs' = ReleasedObjs(loc[t].user)
    /\ pc' = [pc EXCEPT ![t] = "idle"]
    /\ loc' = [loc EXCEPT ![t] = NoLoc]
    /\ ev' = Event("op_end", t, loc[t].user, 0, TRUE, "")
    /\ UNCHANGED <<locks, active_sessions, now, balance, transactions, active_games, created, ops>>

LockTaskStep(t) == LockResume(t) \/ OpRead(t) \/ OpDebit(t) \/ OpFinish(t)

BaseInit ==
    /\ locks = [u \in Actors |-> NoLock]
    /\ lockObjs = <<>>
    /\ active_sessions = [u \in Actors |-> NoSession]
    /\ now = 0
    /\ transactions = [u \in Actors |-> <<>>]
    /\ active_games = [r \in Rooms |-> NoGame]
    /\ created = [r \in Rooms |-> 0]
    /\ pc = [t \in Tasks |-> "idle"]
    /\ loc = [t \in Tasks |-> NoLoc]
    /\ ev = NoEv
    /\ ops = 0

NoHarness == [initial_balance |-> 0, bet_amount |-> 0,
              successful |-> [u \in Actors |-> 0], failed |-> [u \in Actors |-> 0]]

LockInit ==
    /\ BaseInit
    /\ \E b \in LockInitBalances, a \in LockBetAmounts :
        /\ balance = [u \in Actors |-> b]
        /\ harness = [initial_balance |-> b, bet_amount |-> a,
                      successful |-> [u \in Actors |-> 0],
                      failed |-> [u \in Actors |-> 0]]

LockNext ==
    \/ \E t \in Tasks, u \in Actors : OpStart(t, u)
    \/ \E t \in Tasks : LockResume(t)
    \/ \E t \in Tasks : OpRead(t)
    \/ \E t \in Tasks : OpDebit(t)
    \/ \E t \in Tasks : OpFinish(t)

\* The event loop runs every task that is ready: a started operation's next
\* step is taken eventually.
LockSpec == LockInit /\ [][LockNext]_vars /\ \A t \in Tasks : WF_vars(LockTaskStep(t))

(***************************************************************************)
(* Claims about the per-actor lock (checked under LockSpec).               *)
(***************************************************************************)

\* A task is inside its critical section from the moment acquire returns
\* until it releases.
InCS(t) == pc[t] \in {"op_read", "op_debit", "op_done"}

\* C1: for any actor, at most one task is inside its lock-protected critical
\* section at any time, although the section contains suspension points.
C1_MutualExclusion ==
    \A t1, t2 \in Tasks :
        (t1 # t2 /\ InCS(t1) /\ InCS(t2)) => loc[t1].user # loc[t2].user

\* C1 witness: a task is suspended inside its section while another task of
\* the same actor is queued on the lock.
C1_Witness ==
    \E t1, t2 \in Tasks :
        /\ t1 # t2 /\ loc[t1].user = loc[t2].user
        /\ pc[t1] = "op_debit" /\ pc[t2] = "lock_wait"

InFlight(u) == \E t \in Tasks : pc[t] # "idle" /\ loc[t].user = u

\* C3: with N concurrent lock-protected read-check-debit operations of one
\* actor, the balance is never negative, the successful debits never exceed
\* floor(initial balance / stake), and once the operations have ended the
\* balance is the initial balance minus successes times the stake.
C3_NoDoubleSpend ==
    \A u \in Actors :
        /\ balance[u] >= 0
        /\ harness.successful[u] <= harness.initial_balance \div harness.bet_amount
        /\ ~InFlight(u) =>
              balance[u] = harness.initial_balance
                             - harness.successful[u] * harness.bet_amount

\* C3 witness: all operations of an actor have ended, at least two of them
\* debited and a later one was refused for lack of balance.
C3_Witness ==
    \E u \in Actors :
        /\ ~InFlight(u)
        /\ harness.successful[u] >= 2
        /\ harness.failed[u] >= 1
        /\ balance[u] < harness.bet_amount

\* A task queued on a lock whose future is not done yet.
Blocked(t) == pc[t] = "lock_wait" /\ ~FutureDone(t)

NoCrossActorWait ==
    \A t \in Tasks :
        Blocked(t) =>
            \E t2 \in Tasks :
                /\ t2 # t
                /\ loc[t2].user = loc[t].user
                /\ (InCS(t2) \/ (pc[t2] = "lock_wait" /\ FutureDone(t2)))

LockFreeWhenIdle == \A u \in Actors : ~InFlight(u) => ~is_locked(u)

\* C4: locks are per actor.  A task waits in acquire only behind a task of
\* the same actor, every started operation runs to completion whatever the
\* other actors' tasks do, and once an actor's operations have ended its
\* lock is not held.
C4_ActorsIndependent ==
    /\ [](NoCrossActorWait /\ LockFreeWhenIdle)
    /\ \A t \in Tasks : (pc[t] # "idle") ~> (pc[t] = "idle")

\* C4 witness: tasks of two different actors are inside their critical
\* sections at the same time.
C4_Witness ==
    \E t1, t2 \in Tasks :
        /\ loc[t1].user # loc[t2].user
        /\ pc[t1] = "op_debit" /\ pc[t2] = "op_debit"

(***************************************************************************)
(* GameSessionManager (concurrency.py 97-210) and the with_game_session    *)
(* wrapper (concurrency.py 314-354).  `async with self._lock` guards code  *)
(* with no await, so each method is one action.                            *)
(***************************************************************************)
GameTypes == {"dice", "slot", "blackjack"}

\* `time.time() - start_time > self._timeout`
Expired_AtLimit(start) == now - start >= GAME_SESSION_TIMEOUT
Expired(start) == now - start > GAME_SESSION_TIMEOUT

\* start_session succeeds when the actor has no entry or an expired one.
StartAllowed(u) ==
    active_sessions[u] = NoSession \/ Expired(active_sessions[u].start)

SessionsAfterStart(u, g) ==
    IF StartAllowed(u)
    THEN [active_sessions EXCEPT ![u] = [game |-> g, start |-> now]]
    ELSE active_sessions

\* The failure message names the current game.
StartMessage(u) == IF StartAllowed(u) THEN "created" ELSE active_sessions[u].game

\* end_session: idempotent removal.
SessionsAfterEnd(u) == [active_sessions EXCEPT ![u] = NoSession]

has_active_session_NoTimeout(u) == active_sessions[u] # NoSession

has_active_session(u) ==
    active_sessions[u] # NoSession /\ ~Expired(active_sessions[u].start)

get_active_game(u) ==
    IF active_sessions[u] # NoSession /\ ~Expired(active_sessions[u].start)
    THEN active_sessions[u].game ELSE "none"

ExpiredEntries_AtLimit ==
    {u \in Actors : active_sessions[u] # NoSession
                        /\ Expired_AtLimit(active_sessions[u].start)}

\* cleanup_expired_sessions: the expired entries, all removed at once.
ExpiredEntries ==
    {u \in Actors : active_sessions[u] # NoSession /\ Expired(active_sessions[u].start)}

SessionsAfterSweep ==
    [u \in Actors |-> IF u \in ExpiredEntries THEN NoSession ELSE active_sessions[u]]

Tick ==
    /\ now < MaxTicks * TickStep
    /\ now' = now + TickStep
    /\ ev' = Event("tick", 0, 0, 0, TRUE, "")
    /\ UNCHANGED <<locks, lockObjs, active_sessions, balance, transactions,
                   active_games, created, pc, loc, harness, ops>>

\* A blackjack game of u is open in BlackjackManager.active_games (it is kept
\* for SESSION_TIMEOUT = 600 s, longer than any run here).
BlackjackOpen(u) ==
    \E t \in Tasks : pc[t] = "playing" /\ loc[t].user = u /\ loc[t].game = "blackjack"

\* A handler wrapped by with_game_session(g) is called for actor u: the
\* wrapper calls start_game; on failure it replies and returns, on success
\* the game runs.
GameStart(t, u, g) ==
    /\ pc[t] = "idle"
    /\ ops < MaxOps
    /\ ops' = ops + 1
    /\ active_sessions' = SessionsAfterStart(u, g)
    /\ ev' = [Event("start_session", t, u, 0, StartAllowed(u), StartMessage(u))
                 EXCEPT !.arg = g]
    /\ IF StartAllowed(u)
       THEN /\ pc' = [pc EXCEPT ![t] = IF g = "blackjack" THEN "bj_start" ELSE "playing"]
            /\ loc' = [loc EXCEPT ![t] = [NoLoc EXCEPT !.kind = "game", !.user = u,
                                                       !.game = g]]
       ELSE UNCHANGED <<pc, loc>>
    /\ UNCHANGED <<locks, lockObjs, now, balance, transactions, active_games, created, harness>>

\* blackjack_handler after ensure_user_exists: BlackjackManager.start_game
\* refuses a second open game, and the handler then ends the session
\* (bot.py 742-748); otherwise the game is open.
BlackjackBegin(t) ==
    /\ pc[t] = "bj_start"
    /\ IF BlackjackOpen(loc[t].user)
       THEN /\ active_sessions' = SessionsAfterEnd(loc[t].user)
            /\ pc' = [pc EXCEPT ![t] = "idle"]
            /\ loc' = [loc EXCEPT ![t] = NoLoc]
            /\ ev' = Event("bj_begin", t, loc[t].user, 0, FALSE, "")
       ELSE /\ pc' = [pc EXCEPT ![t] = "playing"]
            /\ ev' = Event("bj_begin", t, loc[t].user, 0, TRUE, "")
            /\ UNCHANGED <<active_sessions, loc>>
    /\ UNCHANGED <<locks, lockObjs, now, balance, transactions, active_games, created,
                   harness, ops>>

\* The game ends: the wrapper's finally (dice, slot) or the blackjack
\* callbacks call end_game.
GameEnd(t) ==
    /\ pc[t] = "playing"
    /\ active_sessions' = SessionsAfterEnd(loc[t].user)
    /\ pc' = [pc EXCEPT ![t] = "idle"]
    /\ loc' = [loc EXCEPT ![t] = NoLoc]
    /\ ev' = Event("end_session", t, loc[t].user, 0, TRUE, "")
    /\ UNCHANGED <<locks, lockObjs, now, balance, transactions, active_games, created,
                   harness, ops>>

Sweep ==
    /\ active_sessions' = SessionsAfterSweep
    /\ ev' = [Event("sweep", 0, 0, 0, TRUE, "") EXCEPT !.n = Cardinality(ExpiredEntries)]
    /\ UNCHANGED <<locks, lockObjs, now, balance, transactions, active_games, created,
                   pc, loc, harness, ops>>

\* has_active_session(u) is called: a read with no lock and no await.
HasActiveSession(u) ==
    /\ ev' = Event("has_active_session", 0, u, 0, has_active_session(u), "")
    /\ UNCHANGED <<locks, lockObjs, active_sessions, now, balance, transactions,
                   active_games, created, pc, loc, harness, ops>>

\* get_active_game(u) is called.
GetActiveGame(u) ==
    /\ ev' = Event("get_active_game", 0, u, 0, TRUE, get_active_game(u))
    /\ UNCHANGED <<locks, lockObjs, active_sessions, now, balance, transactions,
                   active_games, created, pc, loc, harness, ops>>

SessionInit ==
    /\ BaseInit
    /\ balance = [u \in Actors |-> DEFAULT_BALANCE]
    /\ harness = NoHarness

SessionNext ==
    \/ \E t \in Tasks, u \in Actors, g \in GameTypes : GameStart(t, u, g)
    \/ \E t \in Tasks : BlackjackBegin(t)
    \/ \E t \in Tasks : GameEnd(t)
    \/ \E u \in Actors : HasActiveSession(u)
    \/ \E u \in Actors : GetActiveGame(u)
    \/ Sweep
    \/ Tick

SessionSpec == SessionInit /\ [][SessionNext]_vars

(***************************************************************************)
(* Claims about the session registry (checked under SessionSpec).          *)
(***************************************************************************)

\* C5: start_session while the actor has an unexpired session (at most 60 s
\* old) fails, names the existing kind and leaves its kind and start time
\* unchanged; with no session (never started, or ended) or an expired one it
\* succeeds and records the new kind with the current time.
C5_SessionExclusive ==
    [][\A u \in Actors :
          (ev'.op = "start_session" /\ ev'.user = u) =>
              IF active_sessions[u] # NoSession /\ now - active_sessions[u].start <= 60
              THEN /\ ~ev'.ok
                   /\ ev'.msg = active_sessions[u].game
                   /\ active_sessions'[u] = active_sessions[u]
              ELSE /\ ev'.ok
                   /\ active_sessions'[u] = [game |-> ev'.arg, start |-> now]]_vars

\* C5 witness: a start_session was refused against a session exactly 60 s old.
C5_Witness ==
    /\ ev.op = "start_session"
    /\ ~ev.ok
    /\ now - active_sessions[ev.user].start = 60

GamesInProgress(u) == {t \in Tasks : pc[t] = "playing" /\ loc[t].user = u}

\* C6: no actor ever has two games in progress at the same time, whatever
\* the sequence of game starts, game ends, sweeps and elapsed time.
C6_OneGamePerActor == \A u \in Actors : Cardinality(GamesInProgress(u)) <= 1

(***************************************************************************)
(* SicBoCalculator (sicbo_calculator.py).  Payouts are the total returned, *)
(* stake included; 0 is a lost bet.                                        *)
(***************************************************************************)
RECURSIVE SeqSum(_)
SeqSum(s) == IF s = <<>> THEN 0 ELSE Head(s) + SeqSum(Tail(s))

\* dice.count(n)
Count(dice, n) == Cardinality({i \in DOMAIN dice : dice[i] = n})

\* `n in dice`
Contains(dice, n) == \E i \in DOMAIN dice : dice[i] = n

SUM_PAYOUTS(s) ==
    CASE s \in {4, 17} -> 61
      [] s \in {5, 16} -> 31
      [] s \in {6, 15} -> 18
      [] s \in {7, 14} -> 13
      [] s \in {8, 13} -> 9
      [] s \in {9, 12, 10, 11} -> 7
      [] OTHER -> 0

is_triple(dice) == Len(dice) = 3 /\ dice[1] = dice[2] /\ dice[2] = dice[3]

calculate_single_payout_Flat(bet_number, dice, bet_amount) ==
    IF Count(dice, bet_number) = 0 THEN 0 ELSE bet_amount * 2

calculate_single_payout(bet_number, dice, bet_amount) ==
    IF Count(dice, bet_number) = 0 THEN 0
    ELSE bet_amount * (Count(dice, bet_number) + 1)

calculate_pair_payout_Counted(numbers, dice, bet_amount) ==
    IF Len(numbers) # 2 THEN 0
    ELSE bet_amount * 6 * Count(dice, numbers[1]) * Count(dice, numbers[2])

calculate_pair_payout(numbers, dice, bet_amount) ==
    IF Len(numbers) # 2 THEN 0
    ELSE IF Contains(dice, numbers[1]) /\ Contains(dice, numbers[2])
         THEN bet_amount * 6 ELSE 0

calculate_sum_payout_NoTriple(target_sum, dice, bet_amount) ==
    IF SeqSum(dice) = target_sum THEN bet_amount * SUM_PAYOUTS(target_sum) ELSE 0

calculate_sum_payout(target_sum, dice, bet_amount) ==
    IF is_triple(dice) THEN 0
    ELSE IF SeqSum(dice) = target_sum THEN bet_amount * SUM_PAYOUTS(target_sum)
         ELSE 0

calculate_big_small_payout_NoTriple(is_big, dice, bet_amount) ==
    IF is_big
    THEN (IF 11 <= SeqSum(dice) /\ SeqSum(dice) <= 17 THEN bet_amount * 2 ELSE 0)
    ELSE (IF 4 <= SeqSum(dice) /\ SeqSum(dice) <= 10 THEN bet_amount * 2 ELSE 0)

calculate_big_small_payout(is_big, dice, bet_amount) ==
    IF is_triple(dice) THEN 0
    ELSE IF is_big
         THEN (IF 11 <= SeqSum(dice) /\ SeqSum(dice) <= 17 THEN bet_amount * 2 ELSE 0)
         ELSE (IF 4 <= SeqSum(dice) /\ SeqSum(dice) <= 10 THEN bet_amount * 2 ELSE 0)

calculate_bet_payout_TripleTakesAll(bet, dice) ==
    IF is_triple(dice) THEN 0
    ELSE CASE bet.bet_type = "SINGLE" ->
                  calculate_single_payout(bet.numbers[1], dice, bet.amount)
           [] bet.bet_type = "PAIR" -> calculate_pair_payout(bet.numbers, dice, bet.amount)
           [] bet.bet_type = "SUM" -> calculate_sum_payout(bet.numbers[1], dice, bet.amount)
           [] bet.bet_type = "BIG" -> calculate_big_small_payout(TRUE, dice, bet.amount)
           [] bet.bet_type = "SMALL" -> calculate_big_small_payout(FALSE, dice, bet.amount)
           [] OTHER -> 0

calculate_bet_payout(bet, dice) ==
    CASE bet.bet_type = "SINGLE" ->
             calculate_single_payout(bet.numbers[1], dice, bet.amount)
      [] bet.bet_type = "PAIR" -> calculate_pair_payout(bet.numbers, dice, bet.amount)
      [] bet.bet_type = "SUM" -> calculate_sum_payout(bet.numbers[1], dice, bet.amount)
      [] bet.bet_type = "BIG" -> calculate_big_small_payout(TRUE, dice, bet.amount)
      [] bet.bet_type = "SMALL" -> calculate_big_small_payout(FALSE, dice, bet.amount)
      [] OTHER -> 0

\* The calculator on its own: a bet with a selection inside its domain and
\* an outcome of three values are drawn, and calculate_bet_payout is
\* applied to them.
CalcStakes == {1, 100, 150}

CalcSelections ==
    {<<"SINGLE", <<d>>>> : d \in 1..6}
      \cup {<<"PAIR", <<p[1], p[2]>>>> : p \in {q \in (1..6) \X (1..6) : q[1] # q[2]}}
      \cup {<<"SUM", <<n>>>> : n \in 4..17}
      \cup {<<"BIG", <<>>>>, <<"SMALL", <<>>>>}

CalcBets ==
    {[user_id |-> 1, bet_type |-> sel[1], amount |-> a, numbers |-> sel[2]] :
        sel \in CalcSelections, a \in CalcStakes}

AllOutcomes == {<<a, b, c>> : a \in 1..6, b \in 1..6, c \in 1..6}

CalcInit ==
    /\ BaseInit
    /\ balance = [u \in Actors |-> DEFAULT_BALANCE]
    /\ \E bet \in CalcBets, dice \in AllOutcomes :
          harness = [bet |-> bet, dice |-> dice, computed |-> FALSE, payout |-> 0]

Calculate ==
    /\ ~harness.computed
    /\ harness' = [harness EXCEPT !.computed = TRUE,
                                  !.payout = calculate_bet_payout(harness.bet, harness.dice)]
    /\ ev' = Event("calculate_bet_payout", 0, 0, 0, TRUE, "")
    /\ UNCHANGED <<locks, lockObjs, active_sessions, now, balance, transactions,
                   active_games, created, pc, loc, ops>>

CalcNext == Calculate

CalcSpec == CalcInit /\ [][CalcNext]_vars

(***************************************************************************)
(* SicBoManager (sicbo_manager.py): the round engine.                      *)
(*                                                                         *)
(* A SicBoGame object has an identity (id): a coroutine that took `game`   *)
(* from get_game keeps that object across its suspensions, whether or not  *)
(* it is still the one registered in active_games.  phase "absent" stands  *)
(* for a room with no entry in active_games.                               *)
(***************************************************************************)

\* The outcomes a draw is given (the values Telegram's dice returned, or the
\* random values): a high outcome, a low outcome and a triple.
DiceOutcomes == {<<2, 3, 6>>, <<1, 3, 4>>, <<4, 4, 4>>}

\* start_game: `chat_id in self.active_games and existing_game.phase != IDLE`
GameInProgress_Never(r) == FALSE
GameInProgress_AnyRoom(r) ==
    \E r2 \in DOMAIN active_games : active_games[r2].phase \notin {"absent", "IDLE"}
GameInProgress(r) == active_games[r].phase \notin {"absent", "IDLE"}

\* place_bet: `game.phase != GamePhase.BETTING` rejects
PlacePhaseOK_Any(g) == TRUE
PlacePhaseOK(g) == g.phase = "BETTING"

\* place_bet: `amount <= 0` rejects
AmountOK_Any(amount) == TRUE
AmountOK(amount) == amount > 0

validate_bet_input(bet_type, numbers) ==
    CASE bet_type = "SINGLE" ->
             Len(numbers) = 1 /\ 1 <= numbers[1] /\ numbers[1] <= 6
      [] bet_type = "PAIR" ->
             /\ Len(numbers) = 2
             /\ numbers[1] # numbers[2]
             /\ 1 <= numbers[1] /\ numbers[1] <= 6
             /\ 1 <= numbers[2] /\ numbers[2] <= 6
      [] bet_type = "SUM" ->
             Len(numbers) = 1 /\ 4 <= numbers[1] /\ numbers[1] <= 17
      [] OTHER -> TRUE

PlaceReject_AtDeadline(r, inp) ==
    IF active_games[r].phase = "absent" THEN "no_game"
    ELSE IF ~PlacePhaseOK(active_games[r]) THEN "wrong_phase"
    ELSE IF now >= active_games[r].betting_end_time THEN "window_closed"
    ELSE IF ~AmountOK(inp.amount) THEN "bad_amount"
    ELSE IF ~validate_bet_input(inp.bet_type, inp.numbers) THEN "bad_selection"
    ELSE "ok"

\* place_bet's checks before its first await, in the code's order: the
\* reason of the rejection, or "ok".
PlaceReject(r, inp) ==
    IF active_games[r].phase = "absent" THEN "no_game"
    ELSE IF ~PlacePhaseOK(active_games[r]) THEN "wrong_phase"
    ELSE IF now > active_games[r].betting_end_time THEN "window_closed"
    ELSE IF ~AmountOK(inp.amount) THEN "bad_amount"
    ELSE IF ~validate_bet_input(inp.bet_type, inp.numbers) THEN "bad_selection"
    ELSE "ok"

\* place_bet: `balance < amount` rejects
InsufficientBalance(bal, amount) == bal < amount

\* _find_existing_bet: the first bet of the user on the same option, or 0
FindExistingBet_None(bets, u, bet_type, numbers) == 0
FindExistingBet(bets, u, bet_type, numbers) ==
    IF \E i \in DOMAIN bets : /\ bets[i].user_id = u
                              /\ bets[i].bet_type = bet_type
                              /\ bets[i].numbers = numbers
    THEN CHOOSE i \in DOMAIN bets :
            /\ bets[i].user_id = u /\ bets[i].bet_type = bet_type
            /\ bets[i].numbers = numbers
            /\ \A j \in 1..(i - 1) : ~(/\ bets[j].user_id = u
                                       /\ bets[j].bet_type = bet_type
                                       /\ bets[j].numbers = numbers)
    ELSE 0

\* place_bet 250-269: add to the existing bet or append a new one
MergeBet_Overwrite(bets, u, bet_type, numbers, amount) ==
    IF FindExistingBet(bets, u, bet_type, numbers) # 0
    THEN [bets EXCEPT ![FindExistingBet(bets, u, bet_type, numbers)].amount = amount]
    ELSE Append(bets, [user_id |-> u, bet_type |-> bet_type, amount |-> amount,
                       numbers |-> numbers])

MergeBet(bets, u, bet_type, numbers, amount) ==
    IF FindExistingBet(bets, u, bet_type, numbers) # 0
    THEN [bets EXCEPT ![FindExistingBet(bets, u, bet_type, numbers)].amount = @ + amount]
    ELSE Append(bets, [user_id |-> u, bet_type |-> bet_type, amount |-> amount,
                       numbers |-> numbers])

\* roll_dice: `game.phase != GamePhase.BETTING` rejects
RollPhaseOK_Any(g) == TRUE
RollPhaseOK(g) == g.phase = "BETTING"

\* settle_game: `game.phase != GamePhase.ROLLING` rejects
SettlePhaseOK(g) == g.phase = "ROLLING"

\* settle_game: `not game.dice_results or len(game.dice_results) != 3` rejects
DiceValid_Never(g) == FALSE
DiceValid_Any(g) == TRUE
DiceValid(g) == g.dice_results # <<>> /\ Len(g.dice_results) = 3

\* _calculate_player_results: the dict's keys, in order of first insertion
RECURSIVE UsersInOrder(_, _)
UsersInOrder(bets, seen) ==
    IF bets = <<>> THEN <<>>
    ELSE IF Head(bets).user_id \in seen THEN UsersInOrder(Tail(bets), seen)
         ELSE <<Head(bets).user_id>>
                  \o UsersInOrder(Tail(bets), seen \cup {Head(bets).user_id})

RECURSIVE TotalBet(_, _)
TotalBet(bets, u) ==
    IF bets = <<>> THEN 0
    ELSE (IF Head(bets).user_id = u THEN Head(bets).amount ELSE 0)
             + TotalBet(Tail(bets), u)

RECURSIVE TotalPayout_Profit(_, _, _)
TotalPayout_Profit(bets, dice, u) ==
    IF bets = <<>> THEN 0
    ELSE (IF Head(bets).user_id = u /\ calculate_bet_payout(Head(bets), dice) > 0
          THEN calculate_bet_payout(Head(bets), dice) - Head(bets).amount ELSE 0)
             + TotalPayout_Profit(Tail(bets), dice, u)

RECURSIVE TotalPayout(_, _, _)
TotalPayout(bets, dice, u) ==
    IF bets = <<>> THEN 0
    ELSE (IF Head(bets).user_id = u THEN calculate_bet_payout(Head(bets), dice) ELSE 0)
             + TotalPayout(Tail(bets), dice, u)

calculate_player_results(g) ==
    [i \in 1..Len(UsersInOrder(g.bets, {})) |->
        [user |-> UsersInOrder(g.bets, {})[i],
         total_bet |-> TotalBet(g.bets, UsersInOrder(g.bets, {})[i]),
         total_payout |-> TotalPayout(g.bets, g.dice_results,
                                      UsersInOrder(g.bets, {})[i])]]

\* settle_game's loop awaits the ledger only for `payout > 0`
Winners_All(results) == results
Winners(results) == SelectSeq(results, LAMBDA res : res.total_payout > 0)

\* settle_game 427-431: phase IDLE, then `del self.active_games[chat_id]`
RemoveGame_Keep(r) == [active_games EXCEPT ![r].phase = "IDLE"]
RemoveGame(r) == [active_games EXCEPT ![r] = NoGame]

\* settle_game 422-425: net_results[user_id] = total_payout - total_bet
NetResults_Payout(results) ==
    [i \in DOMAIN results |->
        [user |-> results[i].user, net |-> results[i].total_payout]]
NetResults(results) ==
    [i \in DOMAIN results |->
        [user |-> results[i].user,
         net |-> results[i].total_payout - results[i].total_bet]]

(***************************************************************************)
(* Engine operations as steps.  An operation called from a handler returns *)
(* to the handler, which replies over Telegram (an await) and returns; an  *)
(* operation called directly returns to its caller and the task is done.   *)
(***************************************************************************)
\* Tasks are interchangeable: a new call runs in the first free task.
NewTask(t) == pc[t] = "idle" /\ \A t2 \in Tasks : t2 < t => pc[t2] # "idle"

ReturnPc(via) == IF via = "direct" THEN "idle" ELSE "reply"

ReturnLoc(t, via, u, r) ==
    IF via = "direct" THEN NoLoc
    ELSE [NoLoc EXCEPT !.kind = "handler", !.user = u, !.room = r,
                       !.lock = loc[t].lock, !.via = via]

\* start_game(chat_id): no await, one step.
StartGame(r) ==
    /\ IF GameInProgress(r)
       THEN /\ ev' = Event("start_game", 0, 0, r, FALSE, "in_progress")
            /\ UNCHANGED <<active_games, created>>
       ELSE /\ created[r] < MaxRounds
            /\ created' = [created EXCEPT ![r] = @ + 1]
            /\ active_games' = [active_games EXCEPT ![r] =
                   [id |-> created[r] + 1, phase |-> "BETTING", bets |-> <<>>,
                    dice_results |-> <<>>,
                    betting_end_time |-> now + BETTING_DURATION]]
            /\ ev' = [Event("start_game", 0, 0, r, TRUE, "started")
                         EXCEPT !.trace = <<"BETTING">>]
    /\ UNCHANGED <<locks, lockObjs, active_sessions, now, balance, transactions,
                   pc, loc, harness, ops>>

\* place_bet up to its first await (get_balance): the checks of 208-231.
\* Sets pc, loc and ev of the calling task t.  The event of a rejected call
\* records the room and the reason only.
PlaceEnter(t, u, r, via, inp) ==
    /\ IF PlaceReject(r, inp) = "ok"
       THEN /\ ev' = Event("place_bet", t, u, r, TRUE, "ok")
            /\ pc' = [pc EXCEPT ![t] = "place_read"]
            /\ loc' = [loc EXCEPT ![t] =
                   [NoLoc EXCEPT !.kind = "place", !.user = u, !.room = r,
                                 !.lock = loc[t].lock, !.via = via,
                                 !.bet_type = inp.bet_type, !.numbers = inp.numbers,
                                 !.amount = inp.amount, !.gid = active_games[r].id]]
       ELSE /\ ev' = Event("place_bet", 0, 0, r, FALSE, PlaceReject(r, inp))
            /\ pc' = [pc EXCEPT ![t] = ReturnPc(via)]
            /\ loc' = [loc EXCEPT ![t] = ReturnLoc(t, via, u, r)]

\* get_balance returns and the balance is checked (234-236); when it
\* suffices update_balance is called.
PlaceRead(t) ==
    /\ pc[t] = "place_read"
    /\ IF InsufficientBalance(balance[loc[t].user], loc[t].amount)
       THEN /\ pc' = [pc EXCEPT ![t] = ReturnPc(loc[t].via)]
            /\ loc' = [loc EXCEPT ![t] = ReturnLoc(t, loc[t].via, loc[t].user, loc[t].room)]
            /\ ev' = [Event("place_read", t, loc[t].user, loc[t].room, FALSE, "insufficient")
                         EXCEPT !.n = loc[t].debited]
       ELSE /\ pc' = [pc EXCEPT ![t] = "place_debit"]
            /\ ev' = [Event("place_read", t, loc[t].user, loc[t].room, TRUE, "")
                         EXCEPT !.n = loc[t].debited]
            /\ UNCHANGED loc
    /\ UNCHANGED <<locks, lockObjs, active_sessions, now, balance, transactions,
                   active_games, created, harness, ops>>

\* update_balance(user_id, -amount) executes (239); log_transaction is called.
PlaceDebit(t) ==
    /\ pc[t] = "place_debit"
    /\ balance' = [balance EXCEPT ![loc[t].user] = @ - loc[t].amount]
    /\ pc' = [pc EXCEPT ![t] = "place_log"]
    /\ loc' = [loc EXCEPT ![t].debited = loc[t].amount]
    /\ ev' = [Event("place_debit", t, loc[t].user, loc[t].room, TRUE, "")
                 EXCEPT !.n = loc[t].amount]
    /\ UNCHANGED <<locks, lockObjs, active_sessions, now, transactions,
                   active_games, created, harness, ops>>

\* log_transaction(..., -amount, 'sicbo_bet', ...) executes (243-248); the
\* description names the option.
PlaceLog(t) ==
    /\ pc[t] = "place_log"
    /\ transactions' = [transactions EXCEPT ![loc[t].user] =
           Append(@, [type |-> "sicbo_bet", amount |-> 0 - loc[t].amount,
                      description |-> <<loc[t].bet_type, loc[t].numbers>>])]
    /\ pc' = [pc EXCEPT ![t] = "place_merge"]
    /\ ev' = [Event("place_log", t, loc[t].user, loc[t].room, TRUE, "")
                 EXCEPT !.n = loc[t].debited]
    /\ UNCHANGED <<locks, lockObjs, active_sessions, now, balance,
                   active_games, created, loc, harness, ops>>

\* place_bet resumes after the log: the bet is merged into or appended to
\* the `game` object taken at 212 (250-269), and place_bet returns success.
\* When that object is no longer the registered one, the registered game
\* does not change.
PlaceMerge(t) ==
    /\ pc[t] = "place_merge"
    /\ active_games' =
         IF active_games[loc[t].room].id = loc[t].gid
         THEN [active_games EXCEPT ![loc[t].room].bets =
                  MergeBet(@, loc[t].user, loc[t].bet_type, loc[t].numbers, loc[t].amount)]
         ELSE active_games
    /\ pc' = [pc EXCEPT ![t] = ReturnPc(loc[t].via)]
    /\ loc' = [loc EXCEPT ![t] = ReturnLoc(t, loc[t].via, loc[t].user, loc[t].room)]
    /\ ev' = [Event("place_done", t, loc[t].user, loc[t].room, TRUE, "placed")
                 EXCEPT !.n = loc[t].debited]
    /\ UNCHANGED <<locks, lockObjs, active_sessions, now, balance, transactions,
                   created, harness, ops>>

\* roll_dice(chat_id, dice_results): no await, one step.
RollDice(r, dice) ==
    /\ IF active_games[r].phase = "absent"
       THEN /\ ev' = Event("roll_dice", 0, 0, r, FALSE, "no_game")
            /\ UNCHANGED active_games
       ELSE IF ~RollPhaseOK(active_games[r])
       THEN /\ ev' = Event("roll_dice", 0, 0, r, FALSE, "wrong_phase")
            /\ UNCHANGED active_games
       ELSE /\ active_games' = [active_games EXCEPT ![r].phase = "ROLLING",
                                                    ![r].dice_results = dice]
            /\ ev' = [Event("roll_dice", 0, 0, r, TRUE, "rolled")
                         EXCEPT !.trace = <<"ROLLING">>]
    /\ UNCHANGED <<locks, lockObjs, active_sessions, now, balance, transactions,
                   created, pc, loc, harness, ops>>

\* settle_game(chat_id) up to its first await: the checks of 386-396, the
\* move to SETTLING and the results of all players.  With no positive
\* payout the loop awaits nothing and settle_game runs to its end.
SettleGame(t, r) ==
    /\ NewTask(t)
    /\ IF active_games[r].phase = "absent"
       THEN /\ ev' = Event("settle_game", t, 0, r, FALSE, "no_game")
            /\ UNCHANGED <<active_games, pc, loc>>
       ELSE IF ~SettlePhaseOK(active_games[r])
       THEN /\ ev' = Event("settle_game", t, 0, r, FALSE, "wrong_phase")
            /\ UNCHANGED <<active_games, pc, loc>>
       ELSE IF ~DiceValid(active_games[r])
       THEN /\ ev' = Event("settle_game", t, 0, r, FALSE, "bad_dice")
            /\ UNCHANGED <<active_games, pc, loc>>
       ELSE IF Winners(calculate_player_results(active_games[r])) = <<>>
       THEN /\ active_games' = RemoveGame(r)
            /\ ev' = [Event("settle_game", t, 0, r, TRUE, "settled")
                         EXCEPT !.trace = <<"SETTLING", "IDLE", "absent">>,
                                !.net = NetResults(calculate_player_results(active_games[r]))]
            /\ UNCHANGED <<pc, loc>>
       ELSE /\ active_games' = [active_games EXCEPT ![r].phase = "SETTLING"]
            /\ pc' = [pc EXCEPT ![t] = "settle_credit"]
            /\ loc' = [loc EXCEPT ![t] =
                   [NoLoc EXCEPT !.kind = "settle", !.room = r, !.via = "direct",
                                 !.gid = active_games[r].id,
                                 !.player_results = calculate_player_results(active_games[r]),
                                 !.results = Winners(calculate_player_results(active_games[r]))]]
            /\ ev' = [Event("settle_game", t, 0, r, TRUE, "")
                         EXCEPT !.trace = <<"SETTLING">>]
    /\ UNCHANGED <<locks, lockObjs, active_sessions, now, balance, transactions,
                   created, harness, ops>>

\* update_balance(user_id, payout) executes (409); log_transaction is called.
SettleCredit(t) ==
    /\ pc[t] = "settle_credit"
    /\ balance' = [balance EXCEPT ![Head(loc[t].results).user] =
                      @ + Head(loc[t].results).total_payout]
    /\ pc' = [pc EXCEPT ![t] = "settle_log"]
    /\ ev' = Event("settle_credit", t, Head(loc[t].results).user, loc[t].room, TRUE, "")
    /\ UNCHANGED <<locks, lockObjs, active_sessions, now, transactions,
                   active_games, created, loc, harness, ops>>

\* log_transaction(..., payout, 'sicbo_win', ...) executes (412-417).
SettleLog(t) ==
    /\ pc[t] = "settle_log"
    /\ transactions' = [transactions EXCEPT ![Head(loc[t].results).user] =
           Append(@, [type |-> "sicbo_win", amount |-> Head(loc[t].results).total_payout,
                      description |-> <<"WIN", <<>>>>])]
    /\ pc' = [pc EXCEPT ![t] = "settle_next"]
    /\ loc' = [loc EXCEPT ![t].results = Tail(@)]
    /\ ev' = Event("settle_log", t, Head(loc[t].results).user, loc[t].room, TRUE, "")
    /\ UNCHANGED <<locks, lockObjs, active_sessions, now, balance,
                   active_games, created, harness, ops>>

\* settle_game resumes after the log: the loop goes on to the next player
\* with a positive payout, or settle_game finishes (419-433): phase IDLE,
\* `del self.active_games[chat_id]`, success.
SettleNext(t) ==
    /\ pc[t] = "settle_next"
    /\ IF loc[t].results # <<>>
       THEN /\ pc' = [pc EXCEPT ![t] = "settle_credit"]
            /\ ev' = Event("settle_next", t, 0, loc[t].room, TRUE, "")
            /\ UNCHANGED <<active_games, loc>>
       ELSE /\ active_games' = RemoveGame(loc[t].room)
            /\ pc' = [pc EXCEPT ![t] = "idle"]
            /\ loc' = [loc EXCEPT ![t] = NoLoc]
            /\ ev' = [Event("settle_done", t, 0, loc[t].room, TRUE, "settled")
                         EXCEPT !.trace = <<"IDLE", "absent">>,
                                !.net = NetResults(loc[t].player_results)]
    /\ UNCHANGED <<locks, lockObjs, active_sessions, now, balance, transactions,
                   created, harness, ops>>

\* The arguments place_bet is called with: accepted ones (the whole balance
\* among them) and one per validation rule that rejects.
BetInputs ==
    {[bet_type |-> "BIG", numbers |-> <<>>, amount |-> 100],
     [bet_type |-> "SINGLE", numbers |-> <<3>>, amount |-> DEFAULT_BALANCE],
     [bet_type |-> "BIG", numbers |-> <<>>, amount |-> 0],
     [bet_type |-> "SINGLE", numbers |-> <<7>>, amount |-> 100],
     [bet_type |-> "PAIR", numbers |-> <<3, 3>>, amount |-> 100],
     [bet_type |-> "SUM", numbers |-> <<3>>, amount |-> 100]}

\* place_bet called directly by task t.  Only calls that pass the checks
\* count against MaxBets: a rejected call leaves nothing in flight.
PlaceBet(t, u, r, inp) ==
    /\ NewTask(t)
    /\ PlaceReject(r, inp) = "ok" => ops < MaxBets
    /\ ops' = IF PlaceReject(r, inp) = "ok" THEN ops + 1 ELSE ops
    /\ PlaceEnter(t, u, r, "direct", inp)
    /\ UNCHANGED <<locks, lockObjs, active_sessions, now, balance, transactions,
                   active_games, created, harness>>

RoundInit ==
    /\ BaseInit
    /\ balance = [u \in Actors |-> DEFAULT_BALANCE]
    /\ harness = NoHarness

RoundNext ==
    \/ \E r \in Rooms : StartGame(r)
    \/ \E t \in Tasks, u \in Actors, r \in Rooms, inp \in BetInputs : PlaceBet(t, u, r, inp)
    \/ \E t \in Tasks : PlaceRead(t)
    \/ \E t \in Tasks : PlaceDebit(t)
    \/ \E t \in Tasks : PlaceLog(t)
    \/ \E t \in Tasks : PlaceMerge(t)
    \/ \E r \in Rooms, dice \in DiceOutcomes : RollDice(r, dice)
    \/ \E t \in Tasks, r \in Rooms : SettleGame(t, r)
    \/ \E t \in Tasks : SettleCredit(t)
    \/ \E t \in Tasks : SettleLog(t)
    \/ \E t \in Tasks : SettleNext(t)
    \/ Tick

RoundSpec == RoundInit /\ [][RoundNext]_vars

(***************************************************************************)
(* The handlers of bot.py that reach place_bet: bet_handler (/bet, wrapped *)
(* by with_user_lock) and sicbo_callback_handler (the panel buttons, not   *)
(* wrapped).  Application.concurrent_updates(True) runs every update in a  *)
(* task of its own.  The actors have accounts, so ensure_user_exists only  *)
(* reads.                                                                  *)
(***************************************************************************)

\* /bet big 100, /bet single 3 1000
CmdInputs ==
    {[bet_type |-> "BIG", numbers |-> <<>>, amount |-> 100],
     [bet_type |-> "SINGLE", numbers |-> <<3>>, amount |-> DEFAULT_BALANCE]}

\* the buttons "big" and "single 3"; the stake is FIXED_BET_AMOUNT
BtnInputs ==
    {[bet_type |-> "BIG", numbers |-> <<>>, amount |-> FIXED_BET_AMOUNT],
     [bet_type |-> "SINGLE", numbers |-> <<3>>, amount |-> FIXED_BET_AMOUNT]}

HandlerLoc(u, r, lock, via, after, inp) ==
    [NoLoc EXCEPT !.kind = "handler", !.user = u, !.room = r, !.lock = lock,
                  !.via = via, !.after = after, !.bet_type = inp.bet_type,
                  !.numbers = inp.numbers, !.amount = inp.amount]

LocInput(l) == [bet_type |-> l.bet_type, numbers |-> l.numbers, amount |-> l.amount]

\* /bet arrives: the wrapper acquires the actor's lock, bet_handler parses
\* the arguments and awaits ensure_user_exists.
BetCommand(t, u, r, inp) ==
    /\ NewTask(t)
    /\ ops < MaxBets
    /\ ops' = ops + 1
    /\ Acquire(t, u)
    /\ pc' = [pc EXCEPT ![t] = AcquirePc(u, "bet_ensure")]
    /\ loc' = [loc EXCEPT ![t] = HandlerLoc(u, r, GetLock(u), "cmd", "bet_ensure", inp)]
    /\ ev' = Event("bet_command", t, u, r, TRUE, "")
    /\ UNCHANGED <<active_sessions, now, balance, transactions, active_games,
                   created, harness>>

\* ensure_user_exists returns; bet_handler calls place_bet.
BetEnsure(t) ==
    /\ pc[t] = "bet_ensure"
    /\ PlaceEnter(t, loc[t].user, loc[t].room, "cmd", LocInput(loc[t]))
    /\ UNCHANGED <<locks, lockObjs, active_sessions, now, balance, transactions,
                   active_games, created, harness, ops>>

\* A panel button is pressed: sicbo_callback_handler finds the game,
\* _handle_sicbo_*_bet checks the phase and awaits ensure_user_exists.
BetButton(t, u, r, inp) ==
    /\ NewTask(t)
    /\ ops < MaxBets
    /\ ops' = ops + 1
    /\ IF active_games[r].phase = "absent"
       THEN /\ pc' = [pc EXCEPT ![t] = "reply"]
            /\ loc' = [loc EXCEPT ![t] = HandlerLoc(u, r, 0, "btn", "idle", inp)]
            /\ ev' = Event("bet_button", t, u, r, FALSE, "no_game")
       ELSE IF active_games[r].phase # "BETTING"
       THEN /\ pc' = [pc EXCEPT ![t] = "reply"]
            /\ loc' = [loc EXCEPT ![t] = HandlerLoc(u, r, 0, "btn", "idle", inp)]
            /\ ev' = Event("bet_button", t, u, r, FALSE, "betting_over")
       ELSE /\ pc' = [pc EXCEPT ![t] = "btn_ensure"]
            /\ loc' = [loc EXCEPT ![t] = HandlerLoc(u, r, 0, "btn", "idle", inp)]
            /\ ev' = Event("bet_button", t, u, r, TRUE, "")
    /\ UNCHANGED <<locks, lockObjs, active_sessions, now, balance, transactions,
                   active_games, created, harness>>

\* ensure_user_exists returns; the handler awaits get_balance.
BtnEnsure(t) ==
    /\ pc[t] = "btn_ensure"
    /\ pc' = [pc EXCEPT ![t] = "btn_balance"]
    /\ ev' = Event("btn_ensure", t, loc[t].user, loc[t].room, TRUE, "")
    /\ UNCHANGED <<locks, lockObjs, active_sessions, now, balance, transactions,
                   active_games, created, loc, harness, ops>>

\* get_balance returns: below FIXED_BET_AMOUNT the handler answers and
\* returns, otherwise it calls place_bet.
BtnBalance(t) ==
    /\ pc[t] = "btn_balance"
    /\ IF balance[loc[t].user] < FIXED_BET_AMOUNT
       THEN /\ pc' = [pc EXCEPT ![t] = "reply"]
            /\ ev' = Event("btn_balance", t, loc[t].user, loc[t].room, FALSE, "insufficient")
            /\ UNCHANGED loc
       ELSE PlaceEnter(t, loc[t].user, loc[t].room, "btn", LocInput(loc[t]))
    /\ UNCHANGED <<locks, lockObjs, active_sessions, now, balance, transactions,
                   active_games, created, harness, ops>>

\* The reply is sent and the handler returns; with_user_lock's finally
\* releases the actor's lock.
HandlerReturn(t) ==
    /\ pc[t] = "reply"
    /\ lockObjs' = IF loc[t].via = "cmd" THEN ReleasedObjs(loc[t].user) ELSE lockObjs
    /\ pc' = [pc EXCEPT ![t] = "idle"]
    /\ loc' = [loc EXCEPT ![t] = NoLoc]
    /\ ev' = Event("handler_return", t, loc[t].user, loc[t].room, TRUE, "")
    /\ UNCHANGED <<locks, active_sessions, now, balance, transactions,
                   active_games, created, harness, ops>>

BetNext ==
    \/ \E r \in Rooms : StartGame(r)
    \/ \E t \in Tasks, u \in Actors, r \in Rooms, inp \in CmdInputs : BetCommand(t, u, r, inp)
    \/ \E t \in Tasks : LockResume(t)
    \/ \E t \in Tasks : BetEnsure(t)
    \/ \E t \in Tasks, u \in Actors, r \in Rooms, inp \in BtnInputs : BetButton(t, u, r, inp)
    \/ \E t \in Tasks : BtnEnsure(t)
    \/ \E t \in Tasks : BtnBalance(t)
    \/ \E t \in Tasks : PlaceRead(t)
    \/ \E t \in Tasks : PlaceDebit(t)
    \/ \E t \in Tasks : PlaceLog(t)
    \/ \E t \in Tasks : PlaceMerge(t)
    \/ \E t \in Tasks : HandlerReturn(t)
    \/ \E r \in Rooms, dice \in DiceOutcomes : RollDice(r, dice)

BetSpec == RoundInit /\ [][BetNext]_vars

(***************************************************************************)
(* One Round played by two actors with the calls of test_integration.py's  *)
(* multi-player flow: actor 1 stakes 100 on high, actor 2 stakes 150 on    *)
(* single 3, and the draw is given 2-3-6.  The calls may overlap.          *)
(***************************************************************************)
ScenarioBet(u) ==
    IF u = 1 THEN [bet_type |-> "BIG", numbers |-> <<>>, amount |-> 100]
    ELSE [bet_type |-> "SINGLE", numbers |-> <<3>>, amount |-> 150]

ScenarioNext ==
    \/ \E r \in Rooms : StartGame(r)
    \/ \E t \in Tasks, u \in Actors, r \in Rooms : PlaceBet(t, u, r, ScenarioBet(u))
    \/ \E t \in Tasks : PlaceRead(t)
    \/ \E t \in Tasks : PlaceDebit(t)
    \/ \E t \in Tasks : PlaceLog(t)
    \/ \E t \in Tasks : PlaceMerge(t)
    \/ \E r \in Rooms : RollDice(r, <<2, 3, 6>>)
    \/ \E t \in Tasks, r \in Rooms : SettleGame(t, r)
    \/ \E t \in Tasks : SettleCredit(t)
    \/ \E t \in Tasks : SettleLog(t)
    \/ \E t \in Tasks : SettleNext(t)

ScenarioSpec == RoundInit /\ [][ScenarioNext]_vars

(***************************************************************************)
(* The round engine over a ledger whose calls can fail.  Every ledger call *)
(* is one DatabaseManager call (database.py 122-166) that borrows a pooled *)
(* connection, executes one statement and, for a write, commits it; when   *)
(* the statement raises (sqlite3.OperationalError: the database is locked  *)
(* by another connection's write, an I/O error) nothing is written and the *)
(* exception propagates through the repository into place_bet or           *)
(* settle_game, neither of which has a try block.                          *)
(***************************************************************************)

\* get_balance raises inside place_bet (234).
PlaceReadFail(t) ==
    /\ pc[t] = "place_read"
    /\ loc[t].via = "direct"
    /\ pc' = [pc EXCEPT ![t] = "idle"]
    /\ loc' = [loc EXCEPT ![t] = NoLoc]
    /\ ev' = Event("place_read", t, loc[t].user, loc[t].room, FALSE, "exception")
    /\ UNCHANGED <<locks, lockObjs, active_sessions, now, balance, transactions,
                   active_games, created, harness, ops>>

\* update_balance raises inside place_bet (239): nothing was debited.
PlaceDebitFail(t) ==
    /\ pc[t] = "place_debit"
    /\ loc[t].via = "direct"
    /\ pc' = [pc EXCEPT ![t] = "idle"]
    /\ loc' = [loc EXCEPT ![t] = NoLoc]
    /\ ev' = Event("place_debit", t, loc[t].user, loc[t].room, FALSE, "exception")
    /\ UNCHANGED <<locks, lockObjs, active_sessions, now, balance, transactions,
                   active_games, created, harness, ops>>

\* log_transaction raises inside place_bet (243-248): the debit of 239 is
\* committed, no row is inserted, and place_bet ends before line 250.
PlaceLogFail(t) ==
    /\ pc[t] = "place_log"
    /\ loc[t].via = "direct"
    /\ pc' = [pc EXCEPT ![t] = "idle"]
    /\ loc' = [loc EXCEPT ![t] = NoLoc]
    /\ ev' = [Event("place_log", t, loc[t].user, loc[t].room, FALSE, "exception")
                 EXCEPT !.n = loc[t].debited]
    /\ UNCHANGED <<locks, lockObjs, active_sessions, now, balance, transactions,
                   active_games, created, harness, ops>>

\* update_balance raises inside settle_game's loop (409): settle_game ends
\* there, with the Round registered and in SETTLING.
SettleCreditFail(t) ==
    /\ pc[t] = "settle_credit"
    /\ pc' = [pc EXCEPT ![t] = "idle"]
    /\ loc' = [loc EXCEPT ![t] = NoLoc]
    /\ ev' = Event("settle_credit", t, Head(loc[t].results).user, loc[t].room,
                   FALSE, "exception")
    /\ UNCHANGED <<locks, lockObjs, active_sessions, now, balance, transactions,
                   active_games, created, harness, ops>>

\* log_transaction raises inside settle_game's loop (412-417): the credit of
\* 409 is committed, no row is inserted.
SettleLogFail(t) ==
    /\ pc[t] = "settle_log"
    /\ pc' = [pc EXCEPT ![t] = "idle"]
    /\ loc' = [loc EXCEPT ![t] = NoLoc]
    /\ ev' = Event("settle_log", t, Head(loc[t].results).user, loc[t].room,
                   FALSE, "exception")
    /\ UNCHANGED <<locks, lockObjs, active_sessions, now, balance, transactions,
                   active_games, created, harness, ops>>

\* The engine's operations and the failures of their ledger calls; the
\* clock stands still.
LedgerNext ==
    \/ \E r \in Rooms : StartGame(r)
    \/ \E t \in Tasks, u \in Actors, r \in Rooms, inp \in BetInputs : PlaceBet(t, u, r, inp)
    \/ \E t \in Tasks : PlaceRead(t)
    \/ \E t \in Tasks : PlaceDebit(t)
    \/ \E t \in Tasks : PlaceLog(t)
    \/ \E t \in Tasks : PlaceMerge(t)
    \/ \E r \in Rooms, dice \in DiceOutcomes : RollDice(r, dice)
    \/ \E t \in Tasks, r \in Rooms : SettleGame(t, r)
    \/ \E t \in Tasks : SettleCredit(t)
    \/ \E t \in Tasks : SettleLog(t)
    \/ \E t \in Tasks : SettleNext(t)
    \/ \E t \in Tasks : PlaceReadFail(t)
    \/ \E t \in Tasks : PlaceDebitFail(t)
    \/ \E t \in Tasks : PlaceLogFail(t)
    \/ \E t \in Tasks : SettleCreditFail(t)
    \/ \E t \in Tasks : SettleLogFail(t)

LedgerSpec == RoundInit /\ [][LedgerNext]_vars

(***************************************************************************)
(* DatabaseManager.transaction (database.py 168-193) on SQLite.            *)
(*                                                                         *)
(* The call borrows a connection, opens a transaction with BEGIN IMMEDIATE *)
(* (which takes the database's write lock, or raises when another          *)
(* connection holds it past the busy timeout), awaits each operation on    *)
(* that connection, and commits; any exception is caught, the transaction  *)
(* is rolled back and the exception is raised again.  Until the commit the *)
(* operations' writes are visible on that connection only: `balance` and   *)
(* `transactions` are what every other connection reads.                   *)
(***************************************************************************)

\* AccountManager.transfer's five operations (account_manager.py 150-198)
TransferOps(from_id, to_id, amount) ==
    LET fee == (amount * 5) \div 100
        actual_amount == amount - fee
    IN << [kind |-> "update", user |-> from_id, amount |-> 0 - amount,
           type |-> "", description |-> <<>>],
          [kind |-> "update", user |-> to_id, amount |-> actual_amount,
           type |-> "", description |-> <<>>],
          [kind |-> "insert", user |-> from_id, amount |-> 0 - amount,
           type |-> "transfer_send", description |-> <<"transfer", <<>>>>],
          [kind |-> "insert", user |-> to_id, amount |-> actual_amount,
           type |-> "transfer_receive", description |-> <<"transfer", <<>>>>],
          [kind |-> "insert", user |-> from_id, amount |-> 0 - fee,
           type |-> "transfer_fee", description |-> <<"fee", <<>>>>] >>

\* The batches given to transaction(): both transfers between the actors,
\* and a batch of one update and one insert.
Batches ==
    {TransferOps(1, 2, 100), TransferOps(2, 1, 200),
     SubSeq(TransferOps(1, 2, 100), 2, 3)}

\* One operation's statement executed on the connection.
ApplyBalance(bal, o) ==
    IF o.kind = "update" THEN [bal EXCEPT ![o.user] = @ + o.amount] ELSE bal

ApplyTransactions(txs, o) ==
    IF o.kind = "insert"
    THEN [txs EXCEPT ![o.user] =
             Append(@, [type |-> o.type, amount |-> o.amount,
                        description |-> o.description])]
    ELSE txs

\* a connection is inside a transaction it opened with BEGIN IMMEDIATE
WriteLockHeld ==
    \E t \in Tasks : pc[t] \in {"batch_op", "batch_commit", "batch_rollback"}

\* conn.rollback(): what the other connections read afterwards
AfterRollback_Partial(t) == <<loc[t].batch.balance, loc[t].batch.transactions>>
AfterRollback(t) == <<balance, transactions>>

\* transaction(operations) is called: a connection is borrowed and
\* BEGIN IMMEDIATE is sent (178-181).  `fail` is the operation forced to fail.
BatchStart(t, operations, fail) ==
    /\ NewTask(t)
    /\ ops < MaxBatches
    /\ ops' = ops + 1
    /\ pc' = [pc EXCEPT ![t] = "batch_begin"]
    /\ loc' = [loc EXCEPT ![t] =
           [NoLoc EXCEPT !.kind = "batch",
                         !.batch = [NoBatch EXCEPT !.operations = operations,
                                                   !.fail = fail]]]
    /\ ev' = Event("transaction_call", t, 0, 0, TRUE, "")
    /\ UNCHANGED <<locks, lockObjs, active_sessions, now, balance, transactions,
                   active_games, created, harness>>

\* BEGIN IMMEDIATE returns: the transaction is open on the committed data.
BatchBegin(t) ==
    /\ pc[t] = "batch_begin"
    /\ ~WriteLockHeld
    /\ pc' = [pc EXCEPT ![t] = IF loc[t].batch.operations = <<>>
                               THEN "batch_commit" ELSE "batch_op"]
    /\ loc' = [loc EXCEPT ![t].batch.balance = balance,
                          ![t].batch.transactions = transactions]
    /\ ev' = Event("transaction_begin", t, 0, 0, TRUE, "")
    /\ UNCHANGED <<locks, lockObjs, active_sessions, now, balance, transactions,
                   active_games, created, harness, ops>>

\* BEGIN IMMEDIATE raises "database is locked" after the busy timeout: the
\* handler rolls back (nothing is open) and raises again (190-193).
BatchBeginBusy(t) ==
    /\ pc[t] = "batch_begin"
    /\ WriteLockHeld
    /\ pc' = [pc EXCEPT ![t] = "idle"]
    /\ loc' = [loc EXCEPT ![t] = NoLoc]
    /\ ev' = Event("transaction", t, 0, 0, FALSE, "exception")
    /\ UNCHANGED <<locks, lockObjs, active_sessions, now, balance, transactions,
                   active_games, created, harness, ops>>

\* `await operation(conn)` (184-185): the next operation runs, or raises.
BatchOp(t) ==
    /\ pc[t] = "batch_op"
    /\ LET b == loc[t].batch
           o == b.operations[b.done + 1]
       IN IF b.done + 1 = b.fail
          THEN /\ pc' = [pc EXCEPT ![t] = "batch_rollback"]
               /\ ev' = Event("transaction_op", t, 0, 0, FALSE, "raised")
               /\ UNCHANGED loc
          ELSE /\ loc' = [loc EXCEPT ![t].batch.done = @ + 1,
                                     ![t].batch.balance = ApplyBalance(@, o),
                                     ![t].batch.transactions = ApplyTransactions(@, o)]
               /\ pc' = [pc EXCEPT ![t] = IF b.done + 1 = Len(b.operations)
                                          THEN "batch_commit" ELSE "batch_op"]
               /\ ev' = Event("transaction_op", t, 0, 0, TRUE, "")
    /\ UNCHANGED <<locks, lockObjs, active_sessions, now, balance, transactions,
                   active_games, created, harness, ops>>

\* conn.commit() (188-189): the writes become visible; transaction returns True.
BatchCommit(t) ==
    /\ pc[t] = "batch_commit"
    /\ balance' = loc[t].batch.balance
    /\ transactions' = loc[t].batch.transactions
    /\ pc' = [pc EXCEPT ![t] = "idle"]
    /\ loc' = [loc EXCEPT ![t] = NoLoc]
    /\ ev' = [Event("transaction", t, 0, 0, TRUE, "committed")
                 EXCEPT !.n = loc[t].batch.done]
    /\ UNCHANGED <<locks, lockObjs, active_sessions, now, active_games, created,
                   harness, ops>>

\* conn.rollback() and `raise e` (190-193).
BatchRollback(t) ==
    /\ pc[t] = "batch_rollback"
    /\ balance' = AfterRollback(t)[1]
    /\ transactions' = AfterRollback(t)[2]
    /\ pc' = [pc EXCEPT ![t] = "idle"]
    /\ loc' = [loc EXCEPT ![t] = NoLoc]
    /\ ev' = [Event("transaction", t, 0, 0, FALSE, "exception")
                 EXCEPT !.n = loc[t].batch.done]
    /\ UNCHANGED <<locks, lockObjs, active_sessions, now, active_games, created,
                   harness, ops>>

BatchNext ==
    \/ \E t \in Tasks, operations \in Batches :
          \E fail \in 0..Len(operations) : BatchStart(t, operations, fail)
    \/ \E t \in Tasks : BatchBegin(t)
    \/ \E t \in Tasks : BatchBeginBusy(t)
    \/ \E t \in Tasks : BatchOp(t)
    \/ \E t \in Tasks : BatchCommit(t)
    \/ \E t \in Tasks : BatchRollback(t)

BatchSpec == RoundInit /\ [][BatchNext]_vars

(***************************************************************************)
(* Claims about the round engine (checked under RoundSpec).                *)
(***************************************************************************)

\* C7: a room never has more than one Round: start_game while the room's
\* Round is in BETTING, ROLLING or SETTLING fails with "already in progress"
\* and leaves that Round (phase, bets, deadline) as it was; otherwise it
\* succeeds and registers a new Round in BETTING with no bets, no outcome
\* and a deadline 60 seconds after now.
C7_OneRoundPerRoom ==
    [][\A r \in Rooms :
          (ev'.op = "start_game" /\ ev'.room = r) =>
              IF active_games[r].phase \in {"BETTING", "ROLLING", "SETTLING"}
              THEN /\ ~ev'.ok
                   /\ ev'.msg = "in_progress"
                   /\ active_games'[r] = active_games[r]
              ELSE /\ ev'.ok
                   /\ active_games[r].phase = "absent"
                   /\ active_games'[r].id \notin {0, active_games[r].id}
                   /\ active_games'[r].phase = "BETTING"
                   /\ active_games'[r].bets = <<>>
                   /\ active_games'[r].dice_results = <<>>
                   /\ active_games'[r].betting_end_time = now + 60]_vars

\* C7 witness: start_game was refused while settle_game is suspended at a
\* ledger call with the Round in SETTLING, at a time after its deadline.
C7_Witness ==
    /\ ev.op = "start_game"
    /\ ~ev.ok
    /\ active_games[ev.room].phase = "SETTLING"
    /\ now > active_games[ev.room].betting_end_time

\* One phase assignment follows another in the order of the state machine;
\* IDLE is the value settle_game assigns just before it removes the Round.
Forward(p, q) ==
    <<p, q>> \in {<<"absent", "BETTING">>, <<"BETTING", "ROLLING">>,
                  <<"ROLLING", "SETTLING">>, <<"SETTLING", "IDLE">>,
                  <<"IDLE", "absent">>}

ForwardChain(p, tr) ==
    \A i \in 1..Len(tr) : Forward(IF i = 1 THEN p ELSE tr[i - 1], tr[i])

\* C8: in every step, the phases a room's Round is given follow
\* absent -> BETTING -> ROLLING -> SETTLING -> absent from the phase it had,
\* one at a time: no assignment skips a phase or goes back, the phase after
\* the step is the last one assigned, and a Round with phase IDLE is never
\* left registered.
C8_PhaseForward ==
    [][\A r \in Rooms :
          /\ ForwardChain(active_games[r].phase,
                          IF ev'.room = r THEN ev'.trace ELSE <<>>)
          /\ active_games'[r].phase =
                 IF ev'.room = r /\ ev'.trace # <<>>
                 THEN ev'.trace[Len(ev'.trace)]
                 ELSE active_games[r].phase
          /\ active_games'[r].phase # "IDLE"]_vars

\* C8 witness: a second Round of a room has been through BETTING and
\* ROLLING, is in SETTLING, and bets were placed in it.
C8_Witness ==
    \E r \in Rooms :
        /\ active_games[r].id = 2
        /\ active_games[r].phase = "SETTLING"
        /\ active_games[r].bets # <<>>

OutOfPhase(op, g) ==
    CASE op = "place_bet" -> g.phase # "BETTING"
      [] op = "roll_dice" -> g.phase # "BETTING"
      [] op = "settle_game" -> g.phase # "ROLLING"
      [] OTHER -> FALSE

\* C9: place_bet or roll_dice called when the room's phase is not BETTING,
\* settle_game called when it is not ROLLING, or any of them called when the
\* room has no Round, returns failure and changes neither the Round (phase,
\* bets, outcome) nor any balance nor any Movement.
C9_OutOfPhaseRejected ==
    [][\A r \in Rooms :
          (ev'.room = r /\ OutOfPhase(ev'.op, active_games[r])) =>
              /\ ~ev'.ok
              /\ active_games' = active_games
              /\ balance' = balance
              /\ transactions' = transactions]_vars

\* C9 witness: a place_bet call was refused for the phase while the Round,
\* which holds bets, is in SETTLING and a payout has already been credited.
C9_Witness ==
    /\ ev.op = "place_bet"
    /\ ~ev.ok
    /\ ev.msg = "wrong_phase"
    /\ active_games[ev.room].phase = "SETTLING"
    /\ \E t \in Tasks : pc[t] = "settle_log"

\* The selection domains of a place call.
SelectionInDomain(bet_type, numbers) ==
    CASE bet_type = "SINGLE" -> Len(numbers) = 1 /\ numbers[1] \in 1..6
      [] bet_type = "PAIR" -> /\ Len(numbers) = 2
                              /\ numbers[1] \in 1..6 /\ numbers[2] \in 1..6
                              /\ numbers[1] # numbers[2]
      [] bet_type = "SUM" -> Len(numbers) = 1 /\ numbers[1] \in 4..17
      [] OTHER -> numbers = <<>>

PlaceOps == {"place_bet", "place_read", "place_debit", "place_log", "place_done"}

\* C10: a place_bet call is rejected only before it has touched the ledger
\* or the Round: the step that rejects it (at the call, or after the balance
\* was read) changes no balance, no Movement and no bet, and the call had
\* debited nothing.  The call goes past its checks only with a Round in
\* BETTING, a deadline not passed, a stake above 0 and a selection inside
\* its domain, and past the balance check only with a sufficient balance.
C10_RejectedPlaceMutatesNothing ==
    [][ev'.op \in PlaceOps =>
          /\ ~ev'.ok =>
                /\ ev'.op \in {"place_bet", "place_read"}
                /\ ev'.n = 0
                /\ balance' = balance
                /\ transactions' = transactions
                /\ active_games' = active_games
          /\ (ev'.op = "place_bet" /\ ev'.ok) =>
                /\ active_games[ev'.room].phase = "BETTING"
                /\ now <= active_games[ev'.room].betting_end_time
                /\ loc'[ev'.task].amount > 0
                /\ SelectionInDomain(loc'[ev'.task].bet_type, loc'[ev'.task].numbers)
          /\ (ev'.op = "place_read" /\ ev'.ok) =>
                balance[ev'.user] >= loc[ev'.task].amount]_vars

\* C10 witness: a place_bet call was rejected for lack of balance after it
\* had suspended, while the actor already holds a bet in the Round and the
\* actor's earlier stake is debited.
C10_Witness ==
    /\ ev.op = "place_read"
    /\ ~ev.ok
    /\ ev.msg = "insufficient"
    /\ balance[ev.user] < DEFAULT_BALANCE
    /\ \E i \in DOMAIN active_games[ev.room].bets :
           active_games[ev.room].bets[i].user_id = ev.user

(***************************************************************************)
(* Claims about the bet handlers (checked under BetSpec).                  *)
(***************************************************************************)

\* A place_bet call has read the balance and found it sufficient, and its
\* update_balance has not executed yet.
BetweenReadAndWrite(t) == pc[t] = "place_debit"

\* C2: whatever the entry path (the /bet command or a panel button), no two
\* operations of the same actor are at the same time between their balance
\* read and their balance write.
C2_OneAtATimePerActor ==
    \A t1, t2 \in Tasks :
        (t1 # t2 /\ BetweenReadAndWrite(t1) /\ BetweenReadAndWrite(t2))
            => loc[t1].user # loc[t2].user

(***************************************************************************)
(* Claims about the bets of a Round and their settlement (RoundSpec).      *)
(***************************************************************************)
SameOption(b, u, bet_type, numbers) ==
    b.user_id = u /\ b.bet_type = bet_type /\ b.numbers = numbers

\* C11: in every state a Round holds at most one Bet per actor, kind and
\* selection, also while several place_bet calls of that actor for the same
\* kind and selection are in flight, suspended at their ledger calls.
C11_OneBetPerOption ==
    \A r \in Rooms : \A i, j \in DOMAIN active_games[r].bets :
        SameOption(active_games[r].bets[i], active_games[r].bets[j].user_id,
                   active_games[r].bets[j].bet_type, active_games[r].bets[j].numbers)
            => i = j

\* C11 witness: a place_bet call has just stored its Bet while another call
\* of the same actor for the same kind and selection, which has debited its
\* stake, is still suspended at its last ledger call.
C11_Witness ==
    /\ ev.op = "place_done"
    /\ \E t \in Tasks :
          /\ t # ev.task
          /\ pc[t] = "place_merge"
          /\ loc[t].user = ev.user
          /\ loc[t].gid = active_games[ev.room].id
          /\ \E i \in DOMAIN active_games[ev.room].bets :
                SameOption(active_games[ev.room].bets[i], loc[t].user,
                           loc[t].bet_type, loc[t].numbers)

\* The options of the accepted calls.
Options == {<<inp.bet_type, inp.numbers>> : inp \in BetInputs \cup BtnInputs}

RECURSIVE StakeOn(_, _, _)
StakeOn(bets, u, opt) ==
    IF bets = <<>> THEN 0
    ELSE (IF SameOption(Head(bets), u, opt[1], opt[2]) THEN Head(bets).amount ELSE 0)
             + StakeOn(Tail(bets), u, opt)

BetsOn(bets, u, opt) ==
    Cardinality({i \in DOMAIN bets : SameOption(bets[i], u, opt[1], opt[2])})

RECURSIVE MovementSum(_)
MovementSum(ms) == IF ms = <<>> THEN 0 ELSE Head(ms).amount + MovementSum(Tail(ms))

\* the stakes of actor u on an option that were debited and logged
Logged(u, opt) ==
    0 - MovementSum(SelectSeq(transactions[u],
                              LAMBDA m : m.type = "sicbo_bet" /\ m.description = opt))

LoggedCount(u, opt) ==
    Cardinality({i \in DOMAIN transactions[u] :
                    /\ transactions[u][i].type = "sicbo_bet"
                    /\ transactions[u][i].description = opt})

\* the place_bet calls of actor u on an option at the given positions
PlacesAt(u, opt, pcs) ==
    {t \in Tasks : /\ pc[t] \in pcs
                   /\ loc[t].kind = "place"
                   /\ loc[t].user = u
                   /\ <<loc[t].bet_type, loc[t].numbers>> = opt}

RECURSIVE AmountSum(_)
AmountSum(ts) ==
    IF ts = {} THEN 0
    ELSE LET t == CHOOSE x \in ts : TRUE IN loc[t].amount + AmountSum(ts \ {t})

\* C12: while the first Round of a room is open or drawn, for every actor
\* and option the Round holds one Bet whose stake is the sum of the stakes
\* of the place_bet calls that returned success (N calls of stake s: N*s),
\* and no Bet when none did; the actor's balance is lower than at the start
\* by exactly the stakes of those calls on all options, plus the stakes that
\* calls still in flight have debited.
C12_MergedStake ==
    \A r \in Rooms : \A u \in Actors :
        (created[r] = 1 /\ active_games[r].phase \in {"BETTING", "ROLLING"}) =>
            /\ \A opt \in Options :
                  LET pending == PlacesAt(u, opt, {"place_merge"})
                      stake == StakeOn(active_games[r].bets, u, opt)
                  IN /\ stake = Logged(u, opt) - AmountSum(pending)
                     /\ \A s \in {100, DEFAULT_BALANCE} :
                           (\A i \in DOMAIN transactions[u] :
                               transactions[u][i].description = opt
                                   => transactions[u][i].amount = 0 - s)
                             => stake = (LoggedCount(u, opt) - Cardinality(pending)) * s
                     /\ BetsOn(active_games[r].bets, u, opt) = IF stake > 0 THEN 1 ELSE 0
            /\ DEFAULT_BALANCE - balance[u] =
                   TotalBet(active_games[r].bets, u)
                     + AmountSum(UNION {PlacesAt(u, opt, {"place_log", "place_merge"}) :
                                           opt \in Options})

\* C12 witness: an actor placed 100 on high twice in one Round; both calls
\* have returned, the Round holds one high Bet of 200 and nothing else of
\* that actor, and the balance went from 1000 to 800.
C12_Witness ==
    \E r \in Rooms : \E u \in Actors :
        /\ created[r] = 1
        /\ active_games[r].phase \in {"BETTING", "ROLLING"}
        /\ LoggedCount(u, <<"BIG", <<>>>>) = 2
        /\ \A t \in Tasks : pc[t] = "idle"
        /\ StakeOn(active_games[r].bets, u, <<"BIG", <<>>>>) = 200
        /\ BetsOn(active_games[r].bets, u, <<"BIG", <<>>>>) = 1
        /\ balance[u] = 800

(***************************************************************************)
(* Claims about failing ledger calls (checked under LedgerSpec).           *)
(***************************************************************************)

\* C13: a balance change and its Movement are committed together or not at
\* all: whenever no operation is in flight, every actor's balance is the
\* initial balance plus the signed amounts of the actor's Movements, also
\* after a ledger call failed during place_bet or settle_game.
C13_CommitTogether ==
    (\A t \in Tasks : pc[t] = "idle") =>
        \A u \in Actors : balance[u] = DEFAULT_BALANCE + MovementSum(transactions[u])

(***************************************************************************)
(* Claims about the ledger's batch (checked under BatchSpec).              *)
(***************************************************************************)
RECURSIVE UpdateSum(_, _)
UpdateSum(operations, u) ==
    IF operations = <<>> THEN 0
    ELSE (IF Head(operations).kind = "update" /\ Head(operations).user = u
          THEN Head(operations).amount ELSE 0) + UpdateSum(Tail(operations), u)

RECURSIVE Inserted(_, _)
Inserted(operations, u) ==
    IF operations = <<>> THEN <<>>
    ELSE (IF Head(operations).kind = "insert" /\ Head(operations).user = u
          THEN <<[type |-> Head(operations).type, amount |-> Head(operations).amount,
                  description |-> Head(operations).description]>>
          ELSE <<>>) \o Inserted(Tail(operations), u)

BatchOps == {"transaction_call", "transaction_begin", "transaction_op", "transaction"}

\* C14: transaction(operations) is all or nothing.  No step of a call
\* changes what the other connections read, except the commit; a call in
\* which operation k is forced to fail (any k) ends by raising, with every
\* balance and Movement as before it (operations 1..k-1 are rolled back); a
\* call in which none fails ends by returning success with the effects of
\* all N operations committed.
C14_BatchAllOrNothing ==
    [][\A t \in Tasks :
          (ev'.op \in BatchOps /\ ev'.task = t) =>
              /\ ~(ev'.op = "transaction" /\ ev'.ok) =>
                    balance' = balance /\ transactions' = transactions
              /\ (ev'.op = "transaction" /\ loc[t].batch.fail # 0) => ~ev'.ok
              /\ (ev'.op = "transaction" /\ ev'.ok) =>
                    /\ loc[t].batch.fail = 0
                    /\ \A u \in Actors :
                          /\ balance'[u] =
                                 balance[u] + UpdateSum(loc[t].batch.operations, u)
                          /\ transactions'[u] =
                                 transactions[u] \o Inserted(loc[t].batch.operations, u)]_vars

\* C14 witness: after one transfer was committed, a second transfer whose
\* fifth and last operation was forced to fail has been rolled back.
C14_Witness ==
    /\ ev.op = "transaction"
    /\ ~ev.ok
    /\ ev.n = 4
    /\ \E u \in Actors : transactions[u] # <<>>

(***************************************************************************)
(* Claims about settlement (checked under RoundSpec).                      *)
(***************************************************************************)
RECURSIVE PayoutOver(_, _, _)
PayoutOver(bets, dice, idx) ==
    IF idx = {} THEN 0
    ELSE LET i == CHOOSE x \in idx : TRUE
         IN calculate_bet_payout(bets[i], dice) + PayoutOver(bets, dice, idx \ {i})

RECURSIVE StakeOver(_, _)
StakeOver(bets, idx) ==
    IF idx = {} THEN 0
    ELSE LET i == CHOOSE x \in idx : TRUE IN bets[i].amount + StakeOver(bets, idx \ {i})

BetsOf(bets, u) == {i \in DOMAIN bets : bets[i].user_id = u}

\* the payout and the stake of actor u over the Bets of Round g
PayoutOf(g, u) == PayoutOver(g.bets, g.dice_results, BetsOf(g.bets, u))
StakeOf(g, u) == StakeOver(g.bets, BetsOf(g.bets, u))

WinMovements(u) == SelectSeq(transactions[u], LAMBDA m : m.type = "sicbo_win")

SettleEnd(e) ==
    \/ e.op = "settle_game" /\ e.ok /\ e.msg = "settled"
    \/ e.op = "settle_done"

\* C15: a successful settle_game credits each actor with exactly the sum of
\* the calculator's payouts of the actor's Bets, as the Round holds them
\* when settle_game computes its results, and records one credit Movement
\* of that amount for every actor whose payout is above 0; an actor whose
\* payout is 0 gets no credit and no Movement.  When the first settle_game
\* has ended and nothing is in flight, every balance is the initial balance
\* minus the stakes debited plus the payouts credited.
C15_SettleCredits ==
    /\ [][\A r \in Rooms :
            (ev'.op = "settle_game" /\ ev'.ok /\ ev'.room = r) =>
                /\ balance' = balance /\ transactions' = transactions
                /\ IF ev'.msg = "settled"
                   THEN \A u \in Actors : PayoutOf(active_games[r], u) = 0
                   ELSE LET q == loc'[ev'.task].results
                        IN /\ \E u \in Actors : PayoutOf(active_games[r], u) > 0
                           /\ \A u \in Actors :
                                 Cardinality({i \in DOMAIN q : q[i].user = u}) =
                                     IF PayoutOf(active_games[r], u) > 0 THEN 1 ELSE 0
                           /\ \A i \in DOMAIN q :
                                 q[i].total_payout = PayoutOf(active_games[r], q[i].user)]_vars
    /\ [][\A t \in Tasks :
            /\ (ev'.op = "settle_credit" /\ ev'.ok /\ ev'.task = t) =>
                  /\ balance' = [balance EXCEPT ![Head(loc[t].results).user] =
                                    @ + Head(loc[t].results).total_payout]
                  /\ transactions' = transactions
                  /\ loc'[t].results = loc[t].results
            /\ (ev'.op = "settle_log" /\ ev'.ok /\ ev'.task = t) =>
                  /\ balance' = balance
                  /\ transactions' =
                        [transactions EXCEPT ![Head(loc[t].results).user] =
                            Append(@, [type |-> "sicbo_win",
                                       amount |-> Head(loc[t].results).total_payout,
                                       description |-> <<"WIN", <<>>>>])]
                  /\ loc'[t].results = Tail(loc[t].results)
            /\ (ev'.op \in {"settle_next", "settle_done"} /\ ev'.task = t) =>
                  /\ balance' = balance /\ transactions' = transactions
                  /\ loc'[t].results = IF ev'.op = "settle_done" THEN <<>> ELSE loc[t].results
                  /\ ev'.op = "settle_done" <=> loc[t].results = <<>>]_vars
    /\ [](\A r \in Rooms :
            (SettleEnd(ev) /\ ev.room = r /\ created[r] = 1
                 /\ \A t \in Tasks : pc[t] = "idle") =>
                \A u \in Actors :
                    /\ Len(WinMovements(u)) <= 1
                    /\ \A i \in DOMAIN WinMovements(u) : WinMovements(u)[i].amount > 0
                    /\ balance[u] = DEFAULT_BALANCE
                                      + MovementSum(SelectSeq(transactions[u],
                                            LAMBDA m : m.type = "sicbo_bet"))
                                      + MovementSum(WinMovements(u)))

\* C15 witness: settle_game has ended for a Round with outcome 1-3-4 in
\* which one actor staked 1000 on single 3 and the other 100 on high: the
\* first was credited 2000 with one Movement, the second got no credit and
\* no Movement and is at 900.
C15_Witness ==
    /\ ev.op = "settle_done"
    /\ \A t \in Tasks : pc[t] = "idle"
    /\ \E u, v \in Actors :
          /\ balance[u] = 2000
          /\ Len(WinMovements(u)) = 1
          /\ balance[v] = 900
          /\ WinMovements(v) = <<>>
          /\ Len(ev.net) = 2

RECURSIVE NetSum(_)
NetSum(net) == IF net = <<>> THEN 0 ELSE Head(net).net + NetSum(Tail(net))

\* one entry per actor with a Bet in g, holding the actor's payout minus
\* the actor's stakes; the entries add up to the sum over all Bets of
\* payout minus stake
NetOf(g, net) ==
    /\ \A u \in Actors :
          Cardinality({i \in DOMAIN net : net[i].user = u}) =
              IF BetsOf(g.bets, u) = {} THEN 0 ELSE 1
    /\ \A i \in DOMAIN net : net[i].net = PayoutOf(g, net[i].user) - StakeOf(g, net[i].user)
    /\ NetSum(net) = PayoutOver(g.bets, g.dice_results, DOMAIN g.bets)
                        - StakeOver(g.bets, DOMAIN g.bets)

PayoutMinusBet(results) ==
    [i \in DOMAIN results |->
        [user |-> results[i].user, net |-> results[i].total_payout - results[i].total_bet]]

\* C16: the net map settle_game returns has, for each actor with a Bet in
\* the Round, that actor's total payout minus total stake, and its values
\* add up to the sum over all the Round's Bets of payout minus stake; the
\* Bets are those the Round holds when settle_game computes its results,
\* and the map returned at the end is the one computed then.
C16_NetConservation ==
    [][\A t \in Tasks :
          /\ (ev'.op = "settle_game" /\ ev'.ok /\ ev'.task = t) =>
                NetOf(active_games[ev'.room],
                      IF ev'.msg = "settled" THEN ev'.net
                      ELSE PayoutMinusBet(loc'[t].player_results))
          /\ (ev'.op \in {"settle_credit", "settle_log", "settle_next"} /\ ev'.task = t) =>
                loc'[t].player_results = loc[t].player_results
          /\ (ev'.op = "settle_done" /\ ev'.task = t) =>
                ev'.net = PayoutMinusBet(loc[t].player_results)]_vars

\* C16 witness: settle_game returned a net map with a winner at +1000 and a
\* loser at -100.
C16_Witness ==
    /\ SettleEnd(ev)
    /\ ev.ok
    /\ \E i, j \in DOMAIN ev.net : ev.net[i].net = 1000 /\ ev.net[j].net = 0 - 100

\* C17: when settle_game succeeds the room is left without a Round, it stays
\* so until start_game is called, and start_game called for a room whose
\* Round was settled succeeds and registers a new Round in BETTING with no
\* bets and no outcome.
C17_RemovedThenFresh ==
    [][\A r \in Rooms :
          /\ (SettleEnd(ev') /\ ev'.room = r) => active_games'[r] = NoGame
          /\ (active_games[r] = NoGame /\ ~(ev'.op = "start_game" /\ ev'.room = r)) =>
                active_games'[r] = NoGame
          /\ (ev'.op = "start_game" /\ ev'.room = r
                 /\ active_games[r] = NoGame /\ created[r] >= 1) =>
                /\ ev'.ok
                /\ active_games'[r].id > created[r]
                /\ active_games'[r].phase = "BETTING"
                /\ active_games'[r].bets = <<>>
                /\ active_games'[r].dice_results = <<>>]_vars

\* C17 witness: start_game has just opened the room's second Round, empty
\* and in BETTING, after a first Round with bets and a payout was settled.
C17_Witness ==
    /\ ev.op = "start_game"
    /\ ev.ok
    /\ active_games[ev.room].id = 2
    /\ active_games[ev.room].phase = "BETTING"
    /\ active_games[ev.room].bets = <<>>
    /\ \E u \in Actors : WinMovements(u) # <<>>

\* C19: settle_game called for a Round in ROLLING (with its three-value
\* outcome) that holds no Bet succeeds, returns an empty net map, changes no
\* balance, records no Movement, and removes the Round.
C19_EmptyRoundSettles ==
    [][\A r \in Rooms :
          (ev'.op = "settle_game" /\ ev'.room = r
              /\ active_games[r].phase = "ROLLING" /\ active_games[r].bets = <<>>) =>
                /\ ev'.ok
                /\ ev'.msg = "settled"
                /\ ev'.net = <<>>
                /\ balance' = balance
                /\ transactions' = transactions
                /\ active_games'[r] = NoGame]_vars

\* C19 witness: the room's second Round was settled with no Bet in it,
\* after a first Round in which stakes were debited.
C19_Witness ==
    /\ ev.op = "settle_game"
    /\ ev.ok
    /\ ev.net = <<>>
    /\ created[ev.room] = 2
    /\ active_games[ev.room] = NoGame
    /\ \E u \in Actors : transactions[u] # <<>>

(***************************************************************************)
(* More claims about failing ledger calls (checked under LedgerSpec).      *)
(***************************************************************************)

\* C18: every failure inside start_game, place_bet, roll_dice or
\* settle_game, a ledger call that fails part-way through included, comes
\* back to the caller as a (False, message) result: no operation of the
\* engine ends with an exception.
C18_NoExceptionEscapes == ev.msg # "exception"

(***************************************************************************)
(* Claims about the calculator (checked under CalcSpec).                   *)
(***************************************************************************)
Matches(dice, d) ==
    (IF dice[1] = d THEN 1 ELSE 0) + (IF dice[2] = d THEN 1 ELSE 0)
        + (IF dice[3] = d THEN 1 ELSE 0)

\* C20: for every single-value bet (d in 1..6, stake N) and every outcome of
\* three values in 1..6, the payout is 0 when d is not in the outcome, 2N
\* when it occurs once, 3N twice and 4N three times: N * (matches + 1).
C20_SinglePayout ==
    (harness.computed /\ harness.bet.bet_type = "SINGLE") =>
        LET d == harness.bet.numbers[1]
            N == harness.bet.amount
            matches == Matches(harness.dice, d)
        IN /\ harness.payout = IF matches = 0 THEN 0 ELSE N * (matches + 1)
           /\ harness.payout = CASE matches = 0 -> 0
                                 [] matches = 1 -> 2 * N
                                 [] matches = 2 -> 3 * N
                                 [] matches = 3 -> 4 * N

\* C20 witness: a single-4 bet of 100 on outcome 4-4-4 was paid 400.
C20_Witness ==
    /\ harness.computed
    /\ harness.bet.bet_type = "SINGLE"
    /\ harness.bet.numbers = <<4>>
    /\ harness.bet.amount = 100
    /\ harness.dice = <<4, 4, 4>>
    /\ harness.payout = 400

Total(dice) == dice[1] + dice[2] + dice[3]

Triple(dice) == dice[1] = dice[2] /\ dice[2] = dice[3]

\* C21: for every pair bet (d1 # d2 in 1..6, stake N) and every outcome, the
\* payout is 6N when both d1 and d2 occur in the outcome and 0 otherwise; a
\* value that occurs twice counts once.
C21_PairPayout ==
    (harness.computed /\ harness.bet.bet_type = "PAIR") =>
        LET d1 == harness.bet.numbers[1]
            d2 == harness.bet.numbers[2]
        IN harness.payout =
               IF Matches(harness.dice, d1) >= 1 /\ Matches(harness.dice, d2) >= 1
               THEN 6 * harness.bet.amount ELSE 0

\* C21 witness: the pair 3-5 with stake 100 on outcome 3-3-5 was paid 600.
C21_Witness ==
    /\ harness.computed
    /\ harness.bet.bet_type = "PAIR"
    /\ harness.bet.numbers = <<3, 5>>
    /\ harness.bet.amount = 100
    /\ harness.dice = <<3, 3, 5>>
    /\ harness.payout = 600

SumTable ==
    [n \in 4..17 |->
        CASE n = 4 \/ n = 17 -> 61
          [] n = 5 \/ n = 16 -> 31
          [] n = 6 \/ n = 15 -> 18
          [] n = 7 \/ n = 14 -> 13
          [] n = 8 \/ n = 13 -> 9
          [] OTHER -> 7]

\* C22: for every sum bet (s in 4..17, stake N) and every outcome, the
\* payout is 0 on a triple, otherwise N * table[s] when the total is s and 0
\* when it is not, with table 4,17: 61; 5,16: 31; 6,15: 18; 7,14: 13;
\* 8,13: 9; 9,10,11,12: 7.
C22_SumPayout ==
    (harness.computed /\ harness.bet.bet_type = "SUM") =>
        LET n == harness.bet.numbers[1]
        IN harness.payout =
               IF Triple(harness.dice) THEN 0
               ELSE IF Total(harness.dice) = n THEN harness.bet.amount * SumTable[n]
               ELSE 0

\* C22 witness: a sum-17 bet of 150 on outcome 6-5-6 was paid 150 * 61.
C22_Witness ==
    /\ harness.computed
    /\ harness.bet.bet_type = "SUM"
    /\ harness.bet.numbers = <<17>>
    /\ harness.bet.amount = 150
    /\ harness.dice = <<6, 5, 6>>
    /\ harness.payout = 9150

\* C23: for every high or low bet (stake N) and every outcome, the payout is
\* 0 on a triple, otherwise 2N when the total is in the bet's range (high
\* 11..17, low 4..10) and 0 when it is not.
C23_BigSmallPayout ==
    (harness.computed /\ harness.bet.bet_type \in {"BIG", "SMALL"}) =>
        harness.payout =
            IF Triple(harness.dice) THEN 0
            ELSE IF harness.bet.bet_type = "BIG" /\ Total(harness.dice) \in 11..17
                 THEN 2 * harness.bet.amount
            ELSE IF harness.bet.bet_type = "SMALL" /\ Total(harness.dice) \in 4..10
                 THEN 2 * harness.bet.amount
            ELSE 0

\* C23 witness: a low bet of 100 on outcome 2-2-6 (total 10) was paid 200.
C23_Witness ==
    /\ harness.computed
    /\ harness.bet.bet_type = "SMALL"
    /\ harness.bet.amount = 100
    /\ harness.dice = <<2, 2, 6>>
    /\ harness.payout = 200

\* C24: on a triple outcome every high, low and sum bet is paid 0 whatever
\* the total, while a single-value bet is still paid by its matches (4N on
\* the tripled value, 0 on another): on 4-4-4 (total 12) a high bet and a
\* sum-12 bet are paid 0 and a single-4 bet of 100 is paid 400.
C24_TripleZeroes ==
    (harness.computed /\ Triple(harness.dice)) =>
        /\ harness.bet.bet_type \in {"BIG", "SMALL", "SUM"} => harness.payout = 0
        /\ harness.bet.bet_type = "SINGLE" =>
              harness.payout = IF harness.bet.numbers[1] = harness.dice[1]
                               THEN 4 * harness.bet.amount ELSE 0
        /\ (harness.dice = <<4, 4, 4>> /\ harness.bet.amount = 100) =>
              /\ harness.bet.bet_type = "BIG" => harness.payout = 0
              /\ (harness.bet.bet_type = "SUM" /\ harness.bet.numbers = <<12>>) =>
                    harness.payout = 0
              /\ (harness.bet.bet_type = "SINGLE" /\ harness.bet.numbers = <<4>>) =>
                    harness.payout = 400

\* C24 witness: a sum-12 bet was computed on outcome 4-4-4 and paid 0.
C24_Witness ==
    /\ harness.computed
    /\ harness.bet.bet_type = "SUM"
    /\ harness.bet.numbers = <<12>>
    /\ harness.dice = <<4, 4, 4>>
    /\ harness.payout = 0

(***************************************************************************)
(* Claims about a whole Round (checked under ScenarioSpec).                *)
(***************************************************************************)
BetMovements(u) == SelectSeq(transactions[u], LAMBDA m : m.type = "sicbo_bet")

NetFor(net, u) == {net[i].net : i \in {j \in DOMAIN net : net[j].user = u}}

\* C25: actors A and B start at 1000; A places 100 on high and B 150 on
\* single 3, the draw is 2-3-6 and the Round is settled: A is paid 200 (net
\* +100, balance 1100) and B is paid 300 (net +150, balance 1150).
C25_ScenarioA ==
    \A r \in Rooms :
        (/\ SettleEnd(ev) /\ ev.room = r
         /\ created[r] = 1
         /\ \A t \in Tasks : pc[t] = "idle"
         /\ Len(BetMovements(1)) = 1 /\ Len(BetMovements(2)) = 1
         /\ Len(ev.net) = 2) =>
            /\ NetFor(ev.net, 1) = {100}
            /\ NetFor(ev.net, 2) = {150}
            /\ MovementSum(WinMovements(1)) = 200 /\ Len(WinMovements(1)) = 1
            /\ MovementSum(WinMovements(2)) = 300 /\ Len(WinMovements(2)) = 1
            /\ balance[1] = 1100
            /\ balance[2] = 1150

\* C25 witness: the Round of the scenario was settled with both bets in it
\* and nothing is in flight.
C25_Witness ==
    /\ ev.op = "settle_done"
    /\ created[ev.room] = 1
    /\ \A t \in Tasks : pc[t] = "idle"
    /\ Len(BetMovements(1)) = 1 /\ Len(BetMovements(2)) = 1
    /\ Len(ev.net) = 2
    /\ balance = <<1100, 1150>>

(***************************************************************************)
(* The Ledger's handle pool (database.py 15-74, 122-193).  `_pool` is an   *)
(* asyncio.Queue holding pool_size handles.  get_connection takes one with *)
(* `await self._pool.get()` and puts it back in a finally clause.  The     *)
(* pool is kept in `harness`:                                              *)
(*   pool    the queue's items, oldest first;                              *)
(*   getters the tasks suspended in get(), oldest first;                   *)
(*   woken   the suspended tasks whose future a put() has resolved;        *)
(*   held    the handle each task was lent (0: none).                      *)
(***************************************************************************)
PoolSize == 2
MaxCalls == 4

PoolOps == {"execute", "fetch_one", "fetch_all", "transaction"}

Lent(h) == {t \in Tasks : h.held[t] # 0}

\* Queue.get(): while the queue is empty the caller appends a future to
\* _getters and suspends; otherwise get_nowait() pops the oldest item.
PoolGet(h, t) ==
    IF h.pool = <<>>
    THEN [h EXCEPT !.getters = Append(@, t)]
    ELSE [h EXCEPT !.pool = Tail(@), !.held[t] = Head(h.pool)]

\* Queue.put(conn) on a queue that is not full: put_nowait() appends the item
\* and _wakeup_next resolves the oldest getter's future.
PoolPut(h, t) ==
    [h EXCEPT !.pool = Append(@, h.held[t]),
              !.held[t] = 0,
              !.getters = IF @ = <<>> THEN @ ELSE Tail(@),
              !.woken = IF h.getters = <<>> THEN @ ELSE @ \cup {Head(h.getters)}]

ReleaseOnRaise_Leak(h, t) == [h EXCEPT !.held[t] = 0]

\* The finally clause of get_connection when the body raised (73-74).
ReleaseOnRaise(h, t) == PoolPut(h, t)

PoolInit ==
    /\ BaseInit
    /\ balance = [u \in Actors |-> DEFAULT_BALANCE]
    /\ harness = [pool |-> [i \in 1..PoolSize |-> i],
                  getters |-> <<>>,
                  woken |-> {},
                  held |-> [t \in Tasks |-> 0]]

\* execute / fetch_one / fetch_all / transaction enter
\* `async with self.get_connection() as conn` (130, 145, 163, 178).
PoolCall(t, op) ==
    /\ pc[t] = "idle"
    /\ ops < MaxCalls
    /\ ops' = ops + 1
    /\ harness' = PoolGet(harness, t)
    /\ pc' = [pc EXCEPT ![t] = IF harness.pool = <<>> THEN "pool_get" ELSE "pool_use"]
    /\ loc' = [loc EXCEPT ![t] = [NoLoc EXCEPT !.kind = op]]
    /\ ev' = Event("get_connection", t, 0, 0, harness.pool # <<>>,
                   IF harness.pool = <<>> THEN "queued" ELSE "")
    /\ UNCHANGED <<locks, lockObjs, active_sessions, now, balance, transactions,
                   active_games, created>>

\* A getter whose future was resolved runs again: it takes a handle when the
\* queue still has one, and suspends again at the back when it has not.
PoolWake(t) ==
    /\ pc[t] = "pool_get"
    /\ t \in harness.woken
    /\ harness' = PoolGet([harness EXCEPT !.woken = @ \ {t}], t)
    /\ pc' = [pc EXCEPT ![t] = IF harness.pool = <<>> THEN "pool_get" ELSE "pool_use"]
    /\ ev' = Event("get_connection", t, 0, 0, harness.pool # <<>>,
                   IF harness.pool = <<>> THEN "requeued" ELSE "waited")
    /\ UNCHANGED <<locks, lockObjs, active_sessions, now, balance, transactions,
                   active_games, created, loc, ops>>

\* The first awaits on the handle return: conn.execute (131, 146, 164), or
\* BEGIN IMMEDIATE and the operations of a batch (181-185).
PoolExecute(t) ==
    /\ pc[t] = "pool_use"
    /\ pc' = [pc EXCEPT ![t] = "pool_end"]
    /\ ev' = Event(loc[t].kind, t, 0, 0, TRUE, "executed")
    /\ UNCHANGED <<locks, lockObjs, active_sessions, now, balance, transactions,
                   active_games, created, loc, harness, ops>>

\* The last await returns (commit 132, 188; fetchone 147; fetchall 165) and
\* the operation leaves get_connection normally.
PoolReturn(t) ==
    /\ pc[t] = "pool_end"
    /\ harness' = PoolPut(harness, t)
    /\ pc' = [pc EXCEPT ![t] = "idle"]
    /\ loc' = [loc EXCEPT ![t] = NoLoc]
    /\ ev' = Event(loc[t].kind, t, 0, 0, TRUE, "returned")
    /\ UNCHANGED <<locks, lockObjs, active_sessions, now, balance, transactions,
                   active_games, created, ops>>

\* An await on the handle raises.  transaction catches it to roll back
\* (190-192); the other operations leave get_connection with the exception.
PoolRaise(t) ==
    /\ pc[t] \in {"pool_use", "pool_end"}
    /\ IF loc[t].kind = "transaction"
       THEN /\ pc' = [pc EXCEPT ![t] = "pool_rollback"]
            /\ UNCHANGED <<harness, loc>>
       ELSE /\ harness' = ReleaseOnRaise(harness, t)
            /\ pc' = [pc EXCEPT ![t] = "idle"]
            /\ loc' = [loc EXCEPT ![t] = NoLoc]
    /\ ev' = Event(loc[t].kind, t, 0, 0, FALSE, "exception")
    /\ UNCHANGED <<locks, lockObjs, active_sessions, now, balance, transactions,
                   active_games, created, ops>>

\* conn.rollback() returns or raises; either way transaction leaves
\* get_connection with an exception (192-193).
PoolRollback(t) ==
    /\ pc[t] = "pool_rollback"
    /\ harness' = ReleaseOnRaise(harness, t)
    /\ pc' = [pc EXCEPT ![t] = "idle"]
    /\ loc' = [loc EXCEPT ![t] = NoLoc]
    /\ ev' = Event("transaction", t, 0, 0, FALSE, "rolled back")
    /\ UNCHANGED <<locks, lockObjs, active_sessions, now, balance, transactions,
                   active_games, created, ops>>

\* The steps the event loop runs once their await has completed.
PoolTaskStep(t) ==
    PoolWake(t) \/ PoolExecute(t) \/ PoolReturn(t) \/ PoolRollback(t)

PoolNext ==
    \/ \E t \in Tasks, op \in PoolOps : PoolCall(t, op)
    \/ \E t \in Tasks : PoolWake(t)
    \/ \E t \in Tasks : PoolExecute(t)
    \/ \E t \in Tasks : PoolReturn(t)
    \/ \E t \in Tasks : PoolRaise(t)
    \/ \E t \in Tasks : PoolRollback(t)

PoolSpec == PoolInit /\ [][PoolNext]_vars /\ \A t \in Tasks : WF_vars(PoolTaskStep(t))

(***************************************************************************)
(* Claims about the handle pool (checked under PoolSpec).                  *)
(***************************************************************************)
InPool(h) == {h.pool[i] : i \in DOMAIN h.pool}

Using(t) == pc[t] \in {"pool_use", "pool_end", "pool_rollback"}

PoolConserved ==
    /\ Len(harness.pool) + Cardinality(Lent(harness)) = PoolSize
    /\ Cardinality(InPool(harness)) = Len(harness.pool)
    /\ \A t \in Tasks : harness.held[t] \notin InPool(harness)
    /\ \A t1, t2 \in Lent(harness) :
           harness.held[t1] = harness.held[t2] => t1 = t2
    /\ \A t \in Tasks : Using(t) <=> harness.held[t] \in 1..PoolSize
    /\ \A t \in Tasks :
           pc[t] = "pool_get" =>
               \/ t \in harness.woken
               \/ \E i \in DOMAIN harness.getters : harness.getters[i] = t

OlderThanTimeout(u) ==
    active_sessions[u] # NoSession /\ now - active_sessions[u].start > 60

\* C27: while an actor's entry is older than the timeout and still in the
\* registry, has_active_session returns false and get_active_game returns
\* none for that actor, and no read changes the registry.
C27_ExpiredReadsAbsent ==
    [][/\ ev'.op \in {"has_active_session", "get_active_game"} =>
              active_sessions' = active_sessions
       /\ \A u \in Actors :
              (ev'.user = u /\ OlderThanTimeout(u)) =>
                  /\ ev'.op = "has_active_session" => ~ev'.ok
                  /\ ev'.op = "get_active_game" => ev'.msg = "none"]_vars

\* C27 witness: has_active_session answered false for an entry that is older
\* than the timeout and has not been swept.
C27_Witness ==
    /\ ev.op = "has_active_session"
    /\ ~ev.ok
    /\ OlderThanTimeout(ev.user)

\* C28: cleanup_expired_sessions removes exactly the entries older than the
\* timeout, returns how many it removed, and leaves every other entry's kind
\* and start time as they were.
C28_SweepExact ==
    [][ev'.op = "sweep" =>
          /\ \A u \in Actors :
                 active_sessions'[u] =
                     IF OlderThanTimeout(u) THEN NoSession ELSE active_sessions[u]
          /\ ev'.n = Cardinality({u \in Actors : OlderThanTimeout(u)})]_vars

\* C28 witness: a sweep removed one entry and kept an entry exactly as old as
\* the timeout.
C28_Witness ==
    /\ ev.op = "sweep"
    /\ ev.n = 1
    /\ \E u \in Actors :
           active_sessions[u] # NoSession /\ now - active_sessions[u].start = 60

(***************************************************************************)
(* Claims about place_bet overlapping roll_dice and settle_game (checked   *)
(* under RoundSpec).                                                       *)
(***************************************************************************)

\* C29: the bets of a Round change only while its phase is BETTING: once
\* roll_dice has moved the Round to ROLLING no step adds a Bet to it or
\* raises the stake of one, however place_bet, roll_dice and settle_game
\* interleave.
C29_BetsOnlyWhileBetting ==
    [][\A r \in Rooms :
          (/\ active_games[r] # NoGame
           /\ active_games[r].phase # "BETTING"
           /\ active_games'[r] # NoGame) =>
              active_games'[r].bets = active_games[r].bets]_vars

(***************************************************************************)
(* Handlers that take the actor's lock: a handler wrapped by               *)
(* with_user_lock (concurrency.py 280-311) and dice_handler's two locked   *)
(* sections (bot.py 469-514).  Both release in a finally clause.           *)
(***************************************************************************)
MaxHandlers == 3
DiceBets == {1000}
DiceTotals == {6, 12}

\* play_dice (game_engine.py 178-185): the payout for a total of two dice.
DicePayout(bet, total) ==
    IF total <= 6 THEN 0 - bet
    ELSE IF total = 7 THEN 0
    ELSE IF total <= 11 THEN bet
    ELSE bet * 2

ReleasedInFinally_Skipped(u) == lockObjs

\* The finally clause runs release_user_lock while an exception propagates.
ReleasedInFinally(u) == ReleasedObjs(u)

\* wrapper: `await concurrency_manager.acquire_user_lock(user_id)` (305).
WrapCall(t, u) ==
    /\ pc[t] = "idle"
    /\ ops < MaxHandlers
    /\ ops' = ops + 1
    /\ Acquire(t, u)
    /\ pc' = [pc EXCEPT ![t] = AcquirePc(u, "func")]
    /\ loc' = [loc EXCEPT ![t] = [NoLoc EXCEPT !.kind = "with_user_lock", !.user = u,
                                   !.lock = GetLock(u), !.after = "func"]]
    /\ ev' = Event("acquire", t, u, 0, TRUE, "")
    /\ UNCHANGED <<active_sessions, now, balance, transactions, active_games, created,
                   harness>>

\* The wrapped handler passes an await and goes on to a later one.
FuncStep(t) ==
    /\ pc[t] = "func"
    /\ pc' = [pc EXCEPT ![t] = "func_tail"]
    /\ ev' = Event("func", t, loc[t].user, 0, TRUE, "")
    /\ UNCHANGED <<locks, lockObjs, active_sessions, now, balance, transactions,
                   active_games, created, loc, harness, ops>>

\* The wrapped handler returns, early or at its end; the wrapper's finally
\* releases (306-309).
FuncReturn(t) ==
    /\ pc[t] \in {"func", "func_tail"}
    /\ lockObjs' = ReleasedObjs(loc[t].user)
    /\ pc' = [pc EXCEPT ![t] = "idle"]
    /\ loc' = [loc EXCEPT ![t] = NoLoc]
    /\ ev' = Event("exit", t, loc[t].user, 0, TRUE,
                   IF pc[t] = "func" THEN "early" ELSE "normal")
    /\ UNCHANGED <<locks, active_sessions, now, balance, transactions, active_games,
                   created, harness, ops>>

\* An await of the wrapped handler raises; the finally releases and the
\* exception leaves the wrapper.
FuncRaise(t) ==
    /\ pc[t] \in {"func", "func_tail"}
    /\ lockObjs' = ReleasedInFinally(loc[t].user)
    /\ pc' = [pc EXCEPT ![t] = "idle"]
    /\ loc' = [loc EXCEPT ![t] = NoLoc]
    /\ ev' = Event("exit", t, loc[t].user, 0, FALSE, "raised")
    /\ UNCHANGED <<locks, active_sessions, now, balance, transactions, active_games,
                   created, harness, ops>>

\* dice_handler with a valid stake reaches its first acquire (471).
DiceCall(t, u, bet) ==
    /\ pc[t] = "idle"
    /\ ops < MaxHandlers
    /\ ops' = ops + 1
    /\ Acquire(t, u)
    /\ pc' = [pc EXCEPT ![t] = AcquirePc(u, "dice_check")]
    /\ loc' = [loc EXCEPT ![t] = [NoLoc EXCEPT !.kind = "dice", !.user = u,
                                   !.lock = GetLock(u), !.after = "dice_check",
                                   !.amount = bet]]
    /\ ev' = Event("acquire", t, u, 0, TRUE, "")
    /\ UNCHANGED <<active_sessions, now, balance, transactions, active_games, created,
                   harness>>

\* ensure_user_exists and get_balance return (473-474).  With too little
\* balance the handler replies and returns inside the try; otherwise it
\* leaves the try.  The finally releases either way (478-479).
DiceCheck(t) ==
    /\ pc[t] = "dice_check"
    /\ lockObjs' = ReleasedObjs(loc[t].user)
    /\ IF balance[loc[t].user] < loc[t].amount
       THEN /\ pc' = [pc EXCEPT ![t] = "idle"]
            /\ loc' = [loc EXCEPT ![t] = NoLoc]
            /\ ev' = Event("exit", t, loc[t].user, 0, TRUE, "early")
       ELSE /\ pc' = [pc EXCEPT ![t] = "dice_roll"]
            /\ ev' = Event("dice_check", t, loc[t].user, 0, TRUE, "")
            /\ UNCHANGED loc
    /\ UNCHANGED <<locks, active_sessions, now, balance, transactions, active_games,
                   created, harness, ops>>

\* The dice are sent and their animation has ended; the second acquire (508).
DiceRoll(t) ==
    /\ pc[t] = "dice_roll"
    /\ Acquire(t, loc[t].user)
    /\ pc' = [pc EXCEPT ![t] = AcquirePc(loc[t].user, "dice_play")]
    /\ loc' = [loc EXCEPT ![t].lock = GetLock(loc[t].user), ![t].after = "dice_play"]
    /\ ev' = Event("acquire", t, loc[t].user, 0, TRUE, "")
    /\ UNCHANGED <<active_sessions, now, balance, transactions, active_games, created,
                   harness, ops>>

\* play_dice returns (510-512): refused for lack of balance, or the payout is
\* applied and logged; the finally releases (513-514).
DicePlay(t, total) ==
    /\ pc[t] = "dice_play"
    /\ LET u == loc[t].user
           bet == loc[t].amount
       IN /\ IF balance[u] < bet
             THEN UNCHANGED <<balance, transactions>>
             ELSE /\ balance' = [balance EXCEPT ![u] = @ + DicePayout(bet, total)]
                  /\ transactions' = [transactions EXCEPT ![u] =
                        Append(@, [type |-> "dice", amount |-> DicePayout(bet, total),
                                   description |-> <<total>>])]
          /\ lockObjs' = ReleasedObjs(u)
          /\ ev' = Event("exit", t, u, 0, balance[u] >= bet, "normal")
    /\ pc' = [pc EXCEPT ![t] = "idle"]
    /\ loc' = [loc EXCEPT ![t] = NoLoc]
    /\ UNCHANGED <<locks, active_sessions, now, active_games, created, harness, ops>>

\* An await inside one of dice_handler's try blocks raises: the finally
\* releases and the handler's outer except ends it (525-534).
DiceRaise(t) ==
    /\ pc[t] \in {"dice_check", "dice_play"}
    /\ lockObjs' = ReleasedInFinally(loc[t].user)
    /\ pc' = [pc EXCEPT ![t] = "idle"]
    /\ loc' = [loc EXCEPT ![t] = NoLoc]
    /\ ev' = Event("exit", t, loc[t].user, 0, FALSE, "raised")
    /\ UNCHANGED <<locks, active_sessions, now, balance, transactions, active_games,
                   created, harness, ops>>

\* The steps a handler takes once its await has completed.
WrapTaskStep(t) ==
    \/ LockResume(t)
    \/ FuncStep(t)
    \/ FuncReturn(t)
    \/ DiceCheck(t)
    \/ DiceRoll(t)
    \/ \E total \in DiceTotals : DicePlay(t, total)

WrapInit ==
    /\ BaseInit
    /\ balance = [u \in Actors |-> DEFAULT_BALANCE]
    /\ harness = NoHarness

WrapNext ==
    \/ \E t \in Tasks, u \in Actors : WrapCall(t, u)
    \/ \E t \in Tasks : LockResume(t)
    \/ \E t \in Tasks : FuncStep(t)
    \/ \E t \in Tasks : FuncReturn(t)
    \/ \E t \in Tasks : FuncRaise(t)
    \/ \E t \in Tasks, u \in Actors, bet \in DiceBets : DiceCall(t, u, bet)
    \/ \E t \in Tasks : DiceCheck(t)
    \/ \E t \in Tasks : DiceRoll(t)
    \/ \E t \in Tasks, total \in DiceTotals : DicePlay(t, total)
    \/ \E t \in Tasks : DiceRaise(t)

\* The event loop runs every handler whose await has completed.
WrapSpec == WrapInit /\ [][WrapNext]_vars /\ \A t \in Tasks : WF_vars(WrapTaskStep(t))

(***************************************************************************)
(* Claims about the guaranteed release (checked under WrapSpec).           *)
(***************************************************************************)
\* A handler is between its acquire and its finally.
Holding(t) == pc[t] \in {"func", "func_tail", "dice_check", "dice_play"}

\* A locked lock belongs to a handler inside its section, or to a waiter
\* that has been handed the lock and has not run yet.
NoLeakedLock ==
    \A u \in Actors :
        is_locked(u) => \E t \in Tasks : Holding(t) /\ loc[t].user = u

ExitReleases ==
    \A t \in Tasks :
        (Holding(t) /\ ~Holding(t)') =>
            /\ ev'.op \in {"exit", "dice_check"}
            /\ ~lockObjs'[loc[t].lock].locked
            /\ lockObjs[loc[t].lock].waiters # <<>> =>
                   lockObjs'[loc[t].lock].waiters[1].done

\* C30: a handler that took the actor's lock through the wrapper (or through
\* dice_handler's try/finally) releases it when it returns normally, returns
\* early or raises, no lock stays held without a handler inside its section,
\* and every task waiting in acquire is eventually granted the lock.
C30_GuaranteedRelease ==
    /\ []NoLeakedLock
    /\ [][ExitReleases]_vars
    /\ \A t \in Tasks : (pc[t] = "lock_wait") ~> Holding(t)

\* C30 witness: a handler left by a raised error and its release handed the
\* lock to a task that was waiting in acquire.
C30_Witness ==
    /\ ev.op = "exit" /\ ev.msg = "raised"
    /\ \E t \in Tasks :
           /\ pc[t] = "lock_wait" /\ loc[t].user = ev.user
           /\ FutureDone(t)

(***************************************************************************)
(* Claims about the betting deadline (checked under RoundSpec).            *)
(***************************************************************************)
PastDeadline(r) == now > active_games[r].betting_end_time

StakeTotal(bets) == SeqSum([i \in DOMAIN bets |-> bets[i].amount])

\* C31: a place_bet that starts after the Round's deadline while the phase
\* is still BETTING fails with "window closed" and changes nothing; one that
\* starts at or before the deadline is not refused for the deadline, and
\* once past its checks it stores its Bet even when it finishes after the
\* deadline.
C31_DeadlineAtStart ==
    [][\A r \in Rooms :
          /\ (/\ ev'.op = "place_bet" /\ ev'.room = r
              /\ active_games[r].phase = "BETTING") =>
                 IF PastDeadline(r)
                 THEN /\ ~ev'.ok /\ ev'.msg = "window_closed"
                      /\ balance' = balance /\ transactions' = transactions
                      /\ active_games' = active_games
                      /\ pc' = pc /\ loc' = loc
                 ELSE ev'.msg # "window_closed"
          /\ \A t \in Tasks :
                 (/\ pc[t] = "place_merge" /\ ev'.op = "place_done" /\ ev'.task = t
                  /\ loc[t].room = r
                  /\ active_games[r].id = loc[t].gid
                  /\ active_games[r].phase = "BETTING"
                  /\ PastDeadline(r)) =>
                     /\ ev'.ok
                     /\ StakeTotal(active_games'[r].bets)
                            = StakeTotal(active_games[r].bets) + loc[t].amount]_vars

\* C31 witness: a place_bet that passed its checks finished after the
\* deadline of the first Round, still in BETTING, and its Bet is stored.
C31_Witness ==
    /\ ev.op = "place_done" /\ ev.ok
    /\ created[ev.room] = 1
    /\ active_games[ev.room].phase = "BETTING"
    /\ PastDeadline(ev.room)
    /\ StakeTotal(active_games[ev.room].bets) = ev.n
    /\ ev.n > 0

(***************************************************************************)
(* The round engine when roll_dice is handed any list by its caller        *)
(* (sicbo_manager.py 328, 351-354 store `dice_results` as given) and the   *)
(* ledger calls can fail.                                                  *)
(***************************************************************************)
DrawInputs == {<<2, 3, 6>>, <<4, 4, 4>>, <<>>, <<1, 2>>}

DrawNext ==
    \/ \E r \in Rooms : StartGame(r)
    \/ \E t \in Tasks, u \in Actors, r \in Rooms, inp \in BetInputs : PlaceBet(t, u, r, inp)
    \/ \E t \in Tasks : PlaceRead(t)
    \/ \E t \in Tasks : PlaceDebit(t)
    \/ \E t \in Tasks : PlaceLog(t)
    \/ \E t \in Tasks : PlaceMerge(t)
    \/ \E r \in Rooms, dice \in DrawInputs : RollDice(r, dice)
    \/ \E t \in Tasks, r \in Rooms : SettleGame(t, r)
    \/ \E t \in Tasks : SettleCredit(t)
    \/ \E t \in Tasks : SettleLog(t)
    \/ \E t \in Tasks : SettleNext(t)
    \/ \E t \in Tasks : SettleCreditFail(t)
    \/ \E t \in Tasks : SettleLogFail(t)

DrawSpec == RoundInit /\ [][DrawNext]_vars

(***************************************************************************)
(* Claims about settle_game's preconditions (checked under DrawSpec).      *)
(***************************************************************************)
ThreeValues(g) == Len(g.dice_results) = 3

\* C32: settle_game fails and changes nothing unless the Round is in ROLLING
\* with an outcome of exactly three values stored, and a Round is in
\* SETTLING only with such an outcome stored.
C32_SettleNeedsOutcome ==
    /\ [](\A r \in Rooms :
             active_games[r].phase = "SETTLING" => ThreeValues(active_games[r]))
    /\ [][\A r \in Rooms :
             (ev'.op = "settle_game" /\ ev'.room = r) =>
                 IF active_games[r].phase = "ROLLING" /\ ThreeValues(active_games[r])
                 THEN ev'.ok
                 ELSE /\ ~ev'.ok
                      /\ active_games' = active_games
                      /\ balance' = balance /\ transactions' = transactions
                      /\ pc' = pc /\ loc' = loc]_vars

\* C32 witness: settle_game was refused on a Round in ROLLING whose stored
\* outcome has two values.
C32_Witness ==
    /\ ev.op = "settle_game" /\ ~ev.ok
    /\ active_games[ev.room].phase = "ROLLING"
    /\ Len(active_games[ev.room].dice_results) = 2

(***************************************************************************)
(* The round engine over two rooms: active_games is keyed by chat_id       *)
(* (sicbo_manager.py 34).                                                  *)
(***************************************************************************)
AllRooms == {1, 2}

RoomBets == {[bet_type |-> "BIG", numbers |-> <<>>, amount |-> 100]}

RoomsInit ==
    /\ locks = [u \in Actors |-> NoLock]
    /\ lockObjs = <<>>
    /\ active_sessions = [u \in Actors |-> NoSession]
    /\ now = 0
    /\ balance = [u \in Actors |-> DEFAULT_BALANCE]
    /\ transactions = [u \in Actors |-> <<>>]
    /\ active_games = [r \in AllRooms |-> NoGame]
    /\ created = [r \in AllRooms |-> 0]
    /\ pc = [t \in Tasks |-> "idle"]
    /\ loc = [t \in Tasks |-> NoLoc]
    /\ ev = NoEv
    /\ harness = NoHarness
    /\ ops = 0

RoomsNext ==
    \/ \E r \in AllRooms : StartGame(r)
    \/ \E t \in Tasks, u \in Actors, r \in AllRooms, inp \in RoomBets : PlaceBet(t, u, r, inp)
    \/ \E t \in Tasks : PlaceRead(t)
    \/ \E t \in Tasks : PlaceDebit(t)
    \/ \E t \in Tasks : PlaceLog(t)
    \/ \E t \in Tasks : PlaceMerge(t)
    \/ \E r \in AllRooms : RollDice(r, <<2, 3, 6>>)
    \/ \E t \in Tasks, r \in AllRooms : SettleGame(t, r)
    \/ \E t \in Tasks : SettleCredit(t)
    \/ \E t \in Tasks : SettleLog(t)
    \/ \E t \in Tasks : SettleNext(t)

RoomsSpec == RoomsInit /\ [][RoomsNext]_vars

(***************************************************************************)
(* Claims about rooms (checked under RoomsSpec).                           *)
(***************************************************************************)

\* C33: a step of start_game, place_bet, roll_dice or settle_game on one
\* room leaves every other room's Round (existence, phase, bets, outcome) as
\* it was, and start_game on a room with no Round succeeds whatever Round
\* another room has.
C33_RoomsIndependent ==
    [][\A r \in AllRooms :
          ev'.room = r =>
              /\ \A r2 \in AllRooms \ {r} : active_games'[r2] = active_games[r2]
              /\ (ev'.op = "start_game" /\ active_games[r].phase = "absent") => ev'.ok]_vars

\* C33 witness: start_game succeeded in room 2 while room 1's Round, with a
\* Bet in it, was being settled.
C33_Witness ==
    /\ ev.op = "start_game" /\ ev.ok /\ ev.room = 2
    /\ active_games[1].phase = "SETTLING"
    /\ active_games[1].bets # <<>>
    /\ active_games[2].phase = "BETTING"

(***************************************************************************)
(* Claims about stakes and settlement (checked under RoundSpec).           *)
(***************************************************************************)

\* C34: no stake is lost: whenever a place_bet that debited the actor returns
\* success, the Round it checked is still registered and settle_game has not
\* yet computed its results (the phase is BETTING or ROLLING), so that the
\* stored stake is among the Bets settle_game pays.
C34_NoStakeLost ==
    [][\A t \in Tasks :
          (/\ ev'.op = "place_done" /\ ev'.ok /\ ev'.task = t
           /\ loc[t].debited > 0) =>
              /\ active_games[loc[t].room].id = loc[t].gid
              /\ active_games[loc[t].room].phase \in {"BETTING", "ROLLING"}]_vars

(***************************************************************************)
(* The bot's roll-and-settle flow (bot.py 1250-1353, 1516-1558,            *)
(* 1924-1950).  /roll, the roll button and the betting timer each check    *)
(* that the Round is in BETTING and then run _do_roll_and_settle: three    *)
(* send_dice calls fetch the values, roll_dice is called two seconds       *)
(* later, settle_game after one more message.  /roll and the button        *)
(* cancel the timer task.  `harness.timer_used[r]` is the id of the last   *)
(* Round of r whose timer has fired or was cancelled; loc[t].via is the    *)
(* flow's trigger.                                                         *)
(***************************************************************************)
FlowKinds == {"roll_handler", "roll_button"}
FlowDiceValues == {<<2, 3, 6>>, <<1, 3, 4>>}
FlowActors == {1}
MaxFlowRounds == 1   \* Rounds started per room in one run of the flow

TimerTasks(r) ==
    {t \in Tasks : pc[t] # "idle" /\ loc[t].via = "timer" /\ loc[t].room = r}

\* _cancel_sicbo_timer (1269-1278): the room's timer task is cancelled at
\* the await it is suspended in, and its entry is deleted.
PcAfterCancel(r) == [t \in Tasks |-> IF t \in TimerTasks(r) THEN "idle" ELSE pc[t]]
LocAfterCancel(r) == [t \in Tasks |-> IF t \in TimerTasks(r) THEN NoLoc ELSE loc[t]]
TimerUsed(r) == [harness EXCEPT !.timer_used[r] = active_games[r].id]

FlowLoc(r, kind) ==
    [NoLoc EXCEPT !.kind = "flow", !.room = r, !.via = kind, !.gid = active_games[r].id]

\* /roll or the roll button: the phase check (1536-1543, 1937-1941), then
\* for /roll the timer is cancelled before the first await (1547); the
\* button first awaits query.answer (1943).
FlowTrigger(t, r, kind) ==
    /\ NewTask(t)
    /\ IF active_games[r].phase # "BETTING"
       THEN /\ ev' = [Event("roll_trigger", t, 0, r, FALSE, "wrong_phase") EXCEPT !.arg = kind]
            /\ UNCHANGED <<pc, loc, harness>>
       ELSE /\ ev' = [Event("roll_trigger", t, 0, r, TRUE, "") EXCEPT !.arg = kind]
            /\ IF kind = "roll_handler"
               THEN /\ harness' = TimerUsed(r)
                    /\ pc' = [PcAfterCancel(r) EXCEPT ![t] = "flow_dice"]
                    /\ loc' = [LocAfterCancel(r) EXCEPT ![t] = FlowLoc(r, kind)]
               ELSE /\ pc' = [pc EXCEPT ![t] = "flow_answer"]
                    /\ loc' = [loc EXCEPT ![t] = FlowLoc(r, kind)]
                    /\ UNCHANGED harness
    /\ UNCHANGED <<locks, lockObjs, active_sessions, now, balance, transactions,
                   active_games, created, ops>>

\* The button's query.answer has returned: the timer is cancelled (1946).
FlowAnswer(t) ==
    /\ pc[t] = "flow_answer"
    /\ harness' = TimerUsed(loc[t].room)
    /\ pc' = [PcAfterCancel(loc[t].room) EXCEPT ![t] = "flow_dice"]
    /\ loc' = [LocAfterCancel(loc[t].room) EXCEPT ![t] = loc[t]]
    /\ ev' = Event("cancel_timer", t, 0, loc[t].room, TRUE, "")
    /\ UNCHANGED <<locks, lockObjs, active_sessions, now, balance, transactions,
                   active_games, created, ops>>

\* The betting timer's sleep(60) is over (1263-1265), after the deadline:
\* _end_sicbo_betting_phase checks the phase (1291-1293).
TimerFire(t, r) ==
    /\ NewTask(t)
    /\ active_games[r].phase # "absent"
    /\ harness.timer_used[r] < active_games[r].id
    /\ now > active_games[r].betting_end_time
    /\ harness' = TimerUsed(r)
    /\ IF active_games[r].phase # "BETTING"
       THEN /\ ev' = [Event("roll_trigger", t, 0, r, FALSE, "wrong_phase")
                         EXCEPT !.arg = "timer"]
            /\ UNCHANGED <<pc, loc>>
       ELSE /\ ev' = [Event("roll_trigger", t, 0, r, TRUE, "") EXCEPT !.arg = "timer"]
            /\ pc' = [pc EXCEPT ![t] = "flow_dice"]
            /\ loc' = [loc EXCEPT ![t] = FlowLoc(r, "timer")]
    /\ UNCHANGED <<locks, lockObjs, active_sessions, now, balance, transactions,
                   active_games, created, ops>>

\* The third send_dice has returned (1324-1332): the flow holds the three
\* values and sleeps two seconds.
FlowDice(t, dice) ==
    /\ pc[t] = "flow_dice"
    /\ pc' = [pc EXCEPT ![t] = "flow_roll"]
    /\ loc' = [loc EXCEPT ![t].numbers = dice]
    /\ ev' = Event("dice_fetched", t, 0, loc[t].room, TRUE, "")
    /\ UNCHANGED <<locks, lockObjs, active_sessions, now, balance, transactions,
                   active_games, created, harness, ops>>

\* roll_dice(chat_id, dice_values) (1338): refused, the flow ends (1340-1342);
\* accepted, the result message is sent (1345).
FlowRoll(t) ==
    /\ pc[t] = "flow_roll"
    /\ LET r == loc[t].room
       IN IF active_games[r].phase = "absent" \/ ~RollPhaseOK(active_games[r])
          THEN /\ ev' = Event("roll_dice", t, 0, r, FALSE,
                              IF active_games[r].phase = "absent"
                              THEN "no_game" ELSE "wrong_phase")
               /\ pc' = [pc EXCEPT ![t] = "idle"]
               /\ loc' = [loc EXCEPT ![t] = NoLoc]
               /\ UNCHANGED active_games
          ELSE /\ active_games' = [active_games EXCEPT ![r].phase = "ROLLING",
                                                       ![r].dice_results = loc[t].numbers]
               /\ ev' = [Event("roll_dice", t, 0, r, TRUE, "rolled")
                            EXCEPT !.trace = <<"ROLLING">>]
               /\ pc' = [pc EXCEPT ![t] = "flow_settle"]
               /\ UNCHANGED loc
    /\ UNCHANGED <<locks, lockObjs, active_sessions, now, balance, transactions,
                   created, harness, ops>>

\* settle_game(chat_id) called by the flow (1348), up to its first await.
FlowSettle(t) ==
    /\ pc[t] = "flow_settle"
    /\ LET r == loc[t].room
           g == active_games[r]
       IN IF g.phase = "absent" \/ ~SettlePhaseOK(g) \/ ~DiceValid(g)
          THEN /\ ev' = Event("settle_game", t, 0, r, FALSE,
                              IF g.phase = "absent" THEN "no_game"
                              ELSE IF ~SettlePhaseOK(g) THEN "wrong_phase" ELSE "bad_dice")
               /\ pc' = [pc EXCEPT ![t] = "idle"]
               /\ loc' = [loc EXCEPT ![t] = NoLoc]
               /\ UNCHANGED active_games
          ELSE IF Winners(calculate_player_results(g)) = <<>>
          THEN /\ active_games' = RemoveGame(r)
               /\ ev' = [Event("settle_game", t, 0, r, TRUE, "settled")
                            EXCEPT !.trace = <<"SETTLING", "IDLE", "absent">>,
                                   !.net = NetResults(calculate_player_results(g))]
               /\ pc' = [pc EXCEPT ![t] = "idle"]
               /\ loc' = [loc EXCEPT ![t] = NoLoc]
          ELSE /\ active_games' = [active_games EXCEPT ![r].phase = "SETTLING"]
               /\ pc' = [pc EXCEPT ![t] = "settle_credit"]
               /\ loc' = [loc EXCEPT ![t] =
                      [NoLoc EXCEPT !.kind = "settle", !.room = r, !.via = loc[t].via,
                                    !.gid = g.id,
                                    !.player_results = calculate_player_results(g),
                                    !.results = Winners(calculate_player_results(g))]]
               /\ ev' = [Event("settle_game", t, 0, r, TRUE, "")
                            EXCEPT !.trace = <<"SETTLING">>]
    /\ UNCHANGED <<locks, lockObjs, active_sessions, now, balance, transactions,
                   created, harness, ops>>

FlowInit ==
    /\ BaseInit
    /\ balance = [u \in Actors |-> DEFAULT_BALANCE]
    /\ harness = [timer_used |-> [r \in Rooms |-> 0]]

FlowNext ==
    \/ \E r \in Rooms : created[r] < MaxFlowRounds /\ StartGame(r)
    \/ \E t \in Tasks, u \in FlowActors, r \in Rooms, inp \in RoomBets :
          PlaceBet(t, u, r, inp)
    \/ \E t \in Tasks : PlaceRead(t)
    \/ \E t \in Tasks : PlaceDebit(t)
    \/ \E t \in Tasks : PlaceLog(t)
    \/ \E t \in Tasks : PlaceMerge(t)
    \/ \E t \in Tasks, r \in Rooms, kind \in FlowKinds : FlowTrigger(t, r, kind)
    \/ \E t \in Tasks : FlowAnswer(t)
    \/ \E t \in Tasks, r \in Rooms : TimerFire(t, r)
    \/ \E t \in Tasks, dice \in FlowDiceValues : FlowDice(t, dice)
    \/ \E t \in Tasks : FlowRoll(t)
    \/ \E t \in Tasks : FlowSettle(t)
    \/ \E t \in Tasks : SettleCredit(t)
    \/ \E t \in Tasks : SettleLog(t)
    \/ \E t \in Tasks : SettleNext(t)
    \/ Tick

FlowSpec == FlowInit /\ [][FlowNext]_vars

\* The flows of the registered Round of r that hold the three fetched values.
HoldsOutcome(r) ==
    {t \in Tasks : /\ pc[t] \in {"flow_roll", "flow_settle"}
                   /\ loc[t].room = r
                   /\ loc[t].gid = active_games[r].id}

\* C35: once the roll-and-settle flow has obtained the outcome values of a
\* Round, no call of place for that Round passes the checks: a place call
\* made while a flow of the registered Round holds its values is refused.
C35_NoBetAfterOutcome ==
    [][\A r \in Rooms :
          (ev'.op = "place_bet" /\ ev'.room = r /\ HoldsOutcome(r) # {}) => ~ev'.ok]_vars

\* The tasks that are inside settle_game's payout loop for room r.
Settlers(r) ==
    {t \in Tasks : pc[t] \in {"settle_credit", "settle_log", "settle_next"}
                   /\ loc[t].room = r}

\* C36: with /roll, the roll button and the timer triggering the draw
\* concurrently, each Round is paid at most once: at most one task is ever
\* inside the payout loop of a room, a settle_game call is accepted only
\* for a Round in ROLLING and takes it out of ROLLING, and an actor who is
\* credited for Round number n had at most n - 1 payout Movements before.
C36_PaidAtMostOnce ==
    [][\A r \in Rooms :
          /\ Cardinality(Settlers(r))' <= 1
          /\ (ev'.op = "settle_game" /\ ev'.ok /\ ev'.room = r) =>
                /\ active_games[r].phase = "ROLLING"
                /\ active_games'[r].phase # "ROLLING"
          /\ (ev'.op = "settle_credit" /\ ev'.room = r) =>
                Len(WinMovements(ev'.user)) < loc[ev'.task].gid]_vars

\* A second flow's roll_dice is refused while the first flow has credited
\* a payout of the same Round.
C36_Witness ==
    /\ ev.op = "roll_dice" /\ ~ev.ok /\ ev.msg = "wrong_phase"
    /\ \E t \in Tasks : pc[t] = "settle_log" /\ loc[t].room = ev.room

(***************************************************************************)
(* Account creation (account_manager.py 25-49, repositories.py 23-50)      *)
(* next to place and settle and the failures of their ledger calls.        *)
(* `harness.users` is the set of rows of the users table; an actor         *)
(* without a row reads as balance 0 (get_balance, 60-62).                  *)
(***************************************************************************)
INITIAL_GRANT == 1000

\* ensure_user_exists is called: get_user is awaited (36).
EnsureCall(t, u) ==
    /\ NewTask(t)
    /\ pc' = [pc EXCEPT ![t] = "ensure_get"]
    /\ loc' = [loc EXCEPT ![t] = [NoLoc EXCEPT !.kind = "ensure", !.user = u]]
    /\ ev' = Event("ensure_user", t, u, 0, TRUE, "")
    /\ UNCHANGED <<locks, lockObjs, active_sessions, now, balance, transactions,
                   active_games, created, harness, ops>>

\* get_user returns (36-38): an existing user is returned, otherwise
\* create_user is called.
EnsureGet(t) ==
    /\ pc[t] = "ensure_get"
    /\ IF loc[t].user \in harness.users
       THEN /\ pc' = [pc EXCEPT ![t] = "idle"]
            /\ loc' = [loc EXCEPT ![t] = NoLoc]
            /\ ev' = Event("ensure_done", t, loc[t].user, 0, TRUE, "exists")
       ELSE /\ pc' = [pc EXCEPT ![t] = "ensure_create"]
            /\ ev' = Event("ensure_get", t, loc[t].user, 0, TRUE, "missing")
            /\ UNCHANGED loc
    /\ UNCHANGED <<locks, lockObjs, active_sessions, now, balance, transactions,
                   active_games, created, harness, ops>>

\* create_user's INSERT executes (repositories.py 36-41): balance 1000; on
\* an existing primary key it raises and ensure_user_exists ends.
EnsureCreate(t) ==
    /\ pc[t] = "ensure_create"
    /\ IF loc[t].user \in harness.users
       THEN /\ pc' = [pc EXCEPT ![t] = "idle"]
            /\ loc' = [loc EXCEPT ![t] = NoLoc]
            /\ ev' = Event("ensure_create", t, loc[t].user, 0, FALSE, "exception")
            /\ UNCHANGED <<balance, harness>>
       ELSE /\ harness' = [harness EXCEPT !.users = @ \cup {loc[t].user}]
            /\ balance' = [balance EXCEPT ![loc[t].user] = INITIAL_GRANT]
            /\ pc' = [pc EXCEPT ![t] = "ensure_log"]
            /\ ev' = Event("ensure_create", t, loc[t].user, 0, TRUE, "")
            /\ UNCHANGED loc
    /\ UNCHANGED <<locks, lockObjs, active_sessions, now, transactions,
                   active_games, created, ops>>

\* log_transaction(amount=1000, 'init') executes (42-47).
EnsureLog(t) ==
    /\ pc[t] = "ensure_log"
    /\ transactions' = [transactions EXCEPT ![loc[t].user] =
           Append(@, [type |-> "init", amount |-> INITIAL_GRANT,
                      description |-> <<"INIT", <<>>>>])]
    /\ pc' = [pc EXCEPT ![t] = "idle"]
    /\ loc' = [loc EXCEPT ![t] = NoLoc]
    /\ ev' = Event("ensure_done", t, loc[t].user, 0, TRUE, "created")
    /\ UNCHANGED <<locks, lockObjs, active_sessions, now, balance,
                   active_games, created, harness, ops>>

AccountInit ==
    /\ BaseInit
    /\ balance = [u \in Actors |-> 0]
    /\ harness = [users |-> {}]

AccountNext ==
    \/ \E t \in Tasks, u \in FlowActors : EnsureCall(t, u)
    \/ \E t \in Tasks : EnsureGet(t)
    \/ \E t \in Tasks : EnsureCreate(t)
    \/ \E t \in Tasks : EnsureLog(t)
    \/ \E r \in Rooms : created[r] < MaxFlowRounds /\ StartGame(r)
    \/ \E t \in Tasks, u \in FlowActors, r \in Rooms, inp \in RoomBets :
          PlaceBet(t, u, r, inp)
    \/ \E t \in Tasks : PlaceRead(t)
    \/ \E t \in Tasks : PlaceDebit(t)
    \/ \E t \in Tasks : PlaceLog(t)
    \/ \E t \in Tasks : PlaceMerge(t)
    \/ \E r \in Rooms, dice \in FlowDiceValues : RollDice(r, dice)
    \/ \E t \in Tasks, r \in Rooms : SettleGame(t, r)
    \/ \E t \in Tasks : SettleCredit(t)
    \/ \E t \in Tasks : SettleLog(t)
    \/ \E t \in Tasks : SettleNext(t)
    \/ \E t \in Tasks : PlaceReadFail(t)
    \/ \E t \in Tasks : PlaceDebitFail(t)
    \/ \E t \in Tasks : PlaceLogFail(t)
    \/ \E t \in Tasks : SettleCreditFail(t)
    \/ \E t \in Tasks : SettleLogFail(t)

AccountSpec == AccountInit /\ [][AccountNext]_vars

\* An operation that reads or writes actor u's account is in flight: a call
\* made for u, or a settle_game that still has a payout of u to make.
AccountInFlight(u) ==
    \E t \in Tasks :
        /\ pc[t] # "idle"
        /\ \/ loc[t].user = u
           \/ \E i \in DOMAIN loc[t].results : loc[t].results[i].user = u

\* C37: whenever none of an actor's operations is in flight, the actor's
\* balance equals the sum of the signed amounts of the actor's Movements
\* (initial grant, stake debits, payout credits).
C37_BalanceIsMovementSum ==
    \A u \in Actors : ~AccountInFlight(u) => balance[u] = MovementSum(transactions[u])

\* The Round of room r can no longer be changed by any engine operation:
\* no settle_game is inside its payout loop, and the Round is in ROLLING
\* with an outcome that settle_game refuses (390-399) or in SETTLING.
\* start_game refuses a Round in progress (46-50), place_bet and roll_dice
\* a phase other than BETTING (216-217, 345-346), settle_game a phase
\* other than ROLLING (390-391).
Stuck(r) ==
    /\ Settlers(r) = {}
    /\ \/ active_games[r].phase = "ROLLING" /\ ~DiceValid(active_games[r])
       \/ active_games[r].phase = "SETTLING"

\* Once stuck, always stuck: no step of the engine changes the phase or the
\* outcome of a stuck Round.
StuckForever == [][\A r \in Rooms : Stuck(r) => Stuck(r)']_vars

\* C38: no room gets stuck: in every reachable state of a room's Round,
\* the draw having been given an outcome that is not three values and a
\* Ledger call having failed in the middle of settle included, the engine's
\* operations can still bring the room back to having no Round.
C38_NoRoomStuck == \A r \in Rooms : ~Stuck(r)

(***************************************************************************)
(* The per-actor lock with a cancelled wrapper and cleanup_user            *)
(* (concurrency.py 44-94, 304-308).  with_user_lock awaits acquire inside  *)
(* its try block, so its finally clause calls release also when the task   *)
(* is cancelled while acquire is still waiting.                            *)
(***************************************************************************)

\* asyncio.Lock.acquire of a cancelled waiter: the future leaves the queue
\* and, the lock being free, the first remaining waiter is woken.
AfterCancelledAcquire(obj, t) ==
    [locked |-> obj.locked,
     waiters |-> IF obj.locked
                 THEN SelectSeq(obj.waiters, LAMBDA w : w.task # t)
                 ELSE WakeUpFirst(SelectSeq(obj.waiters, LAMBDA w : w.task # t))]

\* UserLockManager.release(u) applied to the lock objects objs (58-69): the
\* lock registered for u is released if it is locked, whoever holds it.
ReleaseIn(objs, u) ==
    IF locks[LockKey(u)] # NoLock /\ objs[locks[LockKey(u)]].locked
    THEN [objs EXCEPT ![locks[LockKey(u)]] =
              [locked |-> FALSE, waiters |-> WakeUpFirst(@.waiters)]]
    ELSE objs

\* The task of a wrapped handler is cancelled while it waits in acquire:
\* CancelledError leaves lock.acquire, and the wrapper's finally clause
\* runs release_user_lock(user_id) (307-308).
CancelWait(t) ==
    /\ pc[t] = "lock_wait"
    /\ lockObjs' = ReleaseIn([lockObjs EXCEPT ![loc[t].lock] =
                                  AfterCancelledAcquire(@, t)], loc[t].user)
    /\ pc' = [pc EXCEPT ![t] = "idle"]
    /\ loc' = [loc EXCEPT ![t] = NoLoc]
    /\ ev' = Event("cancel_wait", t, loc[t].user, 0, TRUE, "")
    /\ UNCHANGED <<locks, active_sessions, now, balance, transactions,
                   active_games, created, harness, ops>>

\* cleanup_user(u) (85-94): the registered lock is removed unless it is
\* locked.
CleanupUser(u) ==
    /\ IF locks[LockKey(u)] # NoLock /\ ~lockObjs[locks[LockKey(u)]].locked
       THEN /\ locks' = [locks EXCEPT ![LockKey(u)] = NoLock]
            /\ ev' = [Event("cleanup_user", 0, u, 0, TRUE, "removed")
                         EXCEPT !.n = locks[LockKey(u)]]
       ELSE /\ ev' = Event("cleanup_user", 0, u, 0, FALSE, "kept")
            /\ UNCHANGED locks
    /\ UNCHANGED <<lockObjs, active_sessions, now, balance, transactions,
                   active_games, created, pc, loc, harness, ops>>

GuardNext ==
    \/ \E t \in Tasks, u \in Actors : OpStart(t, u)
    \/ \E t \in Tasks : LockResume(t)
    \/ \E t \in Tasks : OpRead(t)
    \/ \E t \in Tasks : OpDebit(t)
    \/ \E t \in Tasks : OpFinish(t)
    \/ \E t \in Tasks : CancelWait(t)

GuardSpec == LockInit /\ [][GuardNext]_vars

\* acquire, release and cleanup_user in any interleaving; no task is
\* cancelled.
CleanupNext ==
    \/ \E t \in Tasks, u \in Actors : OpStart(t, u)
    \/ \E t \in Tasks : LockResume(t)
    \/ \E t \in Tasks : OpRead(t)
    \/ \E t \in Tasks : OpDebit(t)
    \/ \E t \in Tasks : OpFinish(t)
    \/ \E u \in Actors : CleanupUser(u)

CleanupSpec == LockInit /\ [][CleanupNext]_vars

\* C39: a release issued by a task that does not hold the actor's lock (the
\* finally clause of a wrapper whose acquire never completed) leaves the
\* hold of the task inside the critical section intact: the lock object
\* every such task holds is still locked after the step.
C39_StrayReleaseKeepsHold ==
    [][ev'.op = "cancel_wait" =>
          \A h \in Tasks : (InCS(h) /\ loc[h].user = ev'.user) =>
                               lockObjs'[loc[h].lock].locked]_vars

\* C40: cleanup_user never removes a lock object that some task holds or is
\* queued on, and two tasks are never inside the critical section of one
\* actor holding different lock objects.
C40_CleanupKeepsExclusion ==
    [][/\ (ev'.op = "cleanup_user" /\ ev'.ok) =>
              \A t \in Tasks : pc[t] # "idle" => loc[t].lock # ev'.n
       /\ \A t1, t2 \in Tasks :
              (InCS(t1) /\ InCS(t2) /\ loc[t1].user = loc[t2].user)' =>
                  (loc[t1].lock = loc[t2].lock)']_vars

====
